---- MODULE Spec2Model ----
(***************************************************************************)
(* A model of the chess rules engine: the 0x88 board with its layered      *)
(* history and attack map, the legal-move generator, move application and  *)
(* reversion, the outcome classifier and the game facade on top of them.   *)
(***************************************************************************)
EXTENDS Integers, Sequences, FiniteSets, TLC

VARIABLES
    layers,      \* Board.#layers[0 .. #layerIdx]; the last one is Board.current
    moves,       \* ChessGame.#moves: the records of the moves played
    gameWinner,  \* ChessGame.#gameWinner
    results,     \* the MoveResults of the last checkMoveResults call
    line,        \* the position hashes of the game so far, the start included
    left,        \* how many more plies the game may take
    call,        \* the last call made of the game or the board, with its input
    thrown,      \* the error that call threw, "none" when it returned
    held         \* the move list that call returned to its caller

vars == <<layers, moves, gameWinner, results, line, left, call, thrown, held>>

(***************************************************************************)
(* Encodings.                                                              *)
(***************************************************************************)
PIECETYPE_PAWN == 1
PIECETYPE_BISHOP == 2
PIECETYPE_KNIGHT == 3
PIECETYPE_ROOK == 4
PIECETYPE_QUEEN == 5
PIECETYPE_KING == 6

COLOR_WHITE == 0
COLOR_BLACK == 8

SPACE_EMPTY == 0
SPACE_MOVED == 16

GAMESTATUS_ACTIVE == 0
GAMESTATUS_CHECKMATE == 1
GAMESTATUS_RESIGNED == 2
GAMESTATUS_DRAW == 3
GAMESTATUS_DRAW_STALEMATE == 4
GAMESTATUS_DRAW_REPETITION == 5
GAMESTATUS_DRAW_FIFTYMOVES == 6
GAMESTATUS_DRAW_NOMATERIAL == 7

BOARD_SIZE == 128
NO_EP == 136

\* The value JavaScript stores for undefined-- (a count that is not a number).
NaN == -1000000

spaceGetType(sp) == sp % 8
spaceGetColor(sp) == ((sp \div 8) % 2) * 8
spaceHasMoved(sp) == (sp \div 16) % 2 = 1
spaceMarkMoved(sp) == IF spaceHasMoved(sp) THEN sp ELSE sp + SPACE_MOVED
encodePieceSpace(type, color, moved) == type + color + (IF moved THEN SPACE_MOVED ELSE 0)

\* (sq & 0x88) === 0
OnBoard(sq) == sq >= 0 /\ sq < BOARD_SIZE /\ sq % 16 < 8
Squares == {sq \in 0..(BOARD_SIZE - 1) : sq % 16 < 8}
ColorBit(color) == color \div 8

Min2(a, b) == IF a < b THEN a ELSE b
Max2(a, b) == IF a > b THEN a ELSE b

DIRS == <<16, 1, -16, -1, 17, -15, -17, 15>>
KNIGHT == <<31, 33, 14, 18, -18, -14, -33, -31>>
PAWN_CAPS == <<-1, 1>>
PROMOTIONS == <<PIECETYPE_QUEEN, PIECETYPE_ROOK, PIECETYPE_KNIGHT, PIECETYPE_BISHOP>>

(***************************************************************************)
(* The castle rights map.                                                  *)
(***************************************************************************)
Pow2(n) == IF n = 0 THEN 1 ELSE IF n = 4 THEN 16 ELSE IF n = 8 THEN 256 ELSE 4096
Nibble(map, base) == (map \div Pow2(base)) % 16
SetNibble(map, base, v) == map - Nibble(map, base) * Pow2(base) + v * Pow2(base)

buildCastleMap(whiteQRook, whiteKRook, blackQRook, blackKRook) ==
    (whiteKRook % 16) + (whiteQRook % 16) * 16
        + (blackKRook % 16) * 256 + (blackQRook % 16) * 4096

\* castleMapKingMoved that marks the king side only.
CastleMapKingMovedKingSide(map, color) ==
    IF color = COLOR_WHITE THEN SetNibble(map, 0, 8) ELSE SetNibble(map, 8, 8)

castleMapKingMoved(map, color) ==
    IF color = COLOR_WHITE
    THEN (map \div 256) * 256 + 136
    ELSE (map % 256) + 34816

castleMapRookMoved(map, coord) ==
    LET kbase == IF coord < 64 THEN 0 ELSE 8
        qbase == kbase + 4
        file == coord % 16
    IN IF Nibble(map, kbase) = file THEN SetNibble(map, kbase, 8)
       ELSE IF Nibble(map, qbase) = file THEN SetNibble(map, qbase, 8)
       ELSE map

castleMapGetFile(map, color, kingSide) ==
    Nibble(map, color + (IF kingSide THEN 0 ELSE 4))

(***************************************************************************)
(* The attack map: attacks[2*sq + colour bit] counts the pieces of that    *)
(* colour attacking sq; a slider's ray ends at, and includes, its first    *)
(* blocker.                                                                *)
(***************************************************************************)
RECURSIVE RayFrom(_, _)
RayFrom(sq, step) ==
    IF OnBoard(sq + step) THEN <<sq + step>> \o RayFrom(sq + step, step) ELSE <<>>

Ray == [sq \in 0..(BOARD_SIZE - 1) |->
          [d \in 1..8 |-> IF OnBoard(sq) THEN RayFrom(sq, DIRS[d]) ELSE <<>>]]

RECURSIVE StepSquares(_, _, _)
StepSquares(sq, steps, i) ==
    IF i > Len(steps) THEN <<>>
    ELSE (IF OnBoard(sq + steps[i]) THEN <<sq + steps[i]>> ELSE <<>>)
            \o StepSquares(sq, steps, i + 1)

KnightSquares == [sq \in 0..(BOARD_SIZE - 1) |->
                    IF OnBoard(sq) THEN StepSquares(sq, KNIGHT, 1) ELSE <<>>]
KingSquares == [sq \in 0..(BOARD_SIZE - 1) |->
                  IF OnBoard(sq) THEN StepSquares(sq, DIRS, 1) ELSE <<>>]
PawnSquares == [sq \in 0..(BOARD_SIZE - 1) |->
                  [cbit \in 0..1 |->
                     IF OnBoard(sq)
                     THEN StepSquares(sq, IF cbit = 0 THEN <<15, 17>> ELSE <<-17, -15>>, 1)
                     ELSE <<>>]]

OppositeDir(d) == IF d \in {1, 2, 5, 6} THEN d + 2 ELSE d - 2

\* How many squares of the ray are seen: up to and including the first blocker.
Blockers(board, ray) == {i \in 1..Len(ray) : board[ray[i]] # SPACE_EMPTY}

Reach(board, ray) ==
    IF Blockers(board, ray) = {} THEN Len(ray)
    ELSE CHOOSE i \in Blockers(board, ray) : \A j \in Blockers(board, ray) : i <= j

SliderDirs(type) ==
    IF type = PIECETYPE_ROOK THEN 1..4
    ELSE IF type = PIECETYPE_BISHOP THEN 5..8
    ELSE IF type = PIECETYPE_QUEEN THEN 1..8
    ELSE {}

\* The counters of colour bit cbit on the first n squares of sqs moved by delta.
RECURSIVE Bump(_, _, _, _, _)
Bump(attacks, sqs, n, cbit, delta) ==
    IF n = 0 \/ DOMAIN attacks = {} THEN attacks    \* one square is done before the next
    ELSE Bump([attacks EXCEPT ![2 * sqs[n] + cbit] = (@ + delta) % 256],
              sqs, n - 1, cbit, delta)

\* The counters on the part of the ray that is seen.
BumpSeen(attacks, board, ray, cbit, delta) ==
    Bump(attacks, ray, Reach(board, ray), cbit, delta)

\* The first piece along the ray, SPACE_EMPTY when there is none.
FirstPiece(board, ray, n) == IF n = 0 THEN SPACE_EMPTY ELSE board[ray[n]]

\* The ray behind sq of the slider p that looks at sq, if p is one.
RescanBehind(attacks, board, back, p, d, delta) ==
    IF p # SPACE_EMPTY /\ d \in SliderDirs(spaceGetType(p))
    THEN BumpSeen(attacks, board, back, ColorBit(spaceGetColor(p)), delta)
    ELSE attacks

\* A slider's own rays from sq, direction d and on.
RECURSIVE BumpRays(_, _, _, _, _, _, _)
BumpRays(attacks, board, sq, type, cbit, delta, d) ==
    IF d > 8 \/ DOMAIN attacks = {} THEN attacks    \* one ray is done before the next
    ELSE BumpRays(IF d \in SliderDirs(type)
                  THEN BumpSeen(attacks, board, Ray[sq][d], cbit, delta)
                  ELSE attacks,
                  board, sq, type, cbit, delta, d + 1)

\* The squares a piece of the given colour and type standing on sq attacks.
StepperSquares(sq, cbit, type) ==
    IF type = PIECETYPE_PAWN THEN PawnSquares[sq][cbit]
    ELSE IF type = PIECETYPE_KNIGHT THEN KnightSquares[sq]
    ELSE KingSquares[sq]

BumpAll(attacks, sqs, cbit, delta) == Bump(attacks, sqs, Len(sqs), cbit, delta)

BumpPiece(attacks, board, sq, color, type, delta) ==
    IF type \in {PIECETYPE_PAWN, PIECETYPE_KNIGHT, PIECETYPE_KING}
    THEN BumpAll(attacks, StepperSquares(sq, ColorBit(color), type), ColorBit(color), delta)
    ELSE BumpRays(attacks, board, sq, type, ColorBit(color), delta, 1)

\* The sliders whose ray passes through sq: each one's ray beyond sq is scanned
\* again, up to its next blocker, and its counters moved by delta.
RECURSIVE Rescan(_, _, _, _, _)
Rescan(attacks, board, sq, delta, d) ==
    IF d > 8 \/ DOMAIN attacks = {} THEN attacks    \* one ray is done before the next
    ELSE Rescan(RescanBehind(attacks, board, Ray[sq][OppositeDir(d)],
                             FirstPiece(board, Ray[sq][d], Reach(board, Ray[sq][d])),
                             d, delta),
                board, sq, delta, d + 1)

attackMapAddPiece(attacks, board, sq, color, type) ==
    Rescan(BumpPiece(attacks, board, sq, color, type, 1), board, sq, -1, 1)

attackMapRemovePiece(attacks, board, sq, color, type) ==
    Rescan(BumpPiece(attacks, board, sq, color, type, -1), board, sq, 1, 1)

attackMapIsAttacked(layer, sq, byColor) ==
    layer.attacks[2 * sq + ColorBit(byColor)] > 0

(***************************************************************************)
(* The board: a stack of layers, the last of which is the current one.     *)
(***************************************************************************)
NoCache == <<>>

newLayer ==
    [board |-> [i \in 0..(BOARD_SIZE - 1) |-> SPACE_EMPTY],
     attacks |-> [i \in 0..(2 * BOARD_SIZE - 1) |-> 0],
     clock |-> 0,
     moveNum |-> 1,
     ep |-> NO_EP,
     status |-> GAMESTATUS_ACTIVE,
     turn |-> COLOR_WHITE,
     seen |-> <<>>,
     castles |-> 0,
     moveCache |-> [c \in {COLOR_WHITE, COLOR_BLACK} |-> NoCache],
     pieceList |-> <<>>]

Current(B) == B[Len(B)]
SetCurrent(B, layer) == [B EXCEPT ![Len(B)] = layer]
BoardGet(B, idx) == Current(B).board[idx]

IndexOf(list, x) ==
    IF \E i \in 1..Len(list) : list[i] = x
    THEN CHOOSE i \in 1..Len(list) : list[i] = x /\ \A j \in 1..(i - 1) : list[j] # x
    ELSE 0

\* The piece list popped without the swap.
PieceListPopped(list, idx) ==
    IF Len(list) = 0 THEN list ELSE SubSeq(list, 1, Len(list) - 1)

\* The piece list after a piece leaves idx: idx is swapped with the last entry,
\* which is then popped.
PieceListRemove(list, idx) ==
    LET pieceIdx == IndexOf(list, idx)
        last == Len(list)
        swapped == IF pieceIdx # last /\ pieceIdx # 0
                   THEN [list EXCEPT ![last] = idx, ![pieceIdx] = list[last]]
                   ELSE list
    IN IF last = 0 THEN list ELSE SubSeq(swapped, 1, last - 1)

\* The attack map once the piece that stood on idx, if any, is taken out.
AttacksWithout(attacks, board, idx, prior) ==
    IF prior # SPACE_EMPTY
    THEN attackMapRemovePiece(attacks, board, idx, spaceGetColor(prior), spaceGetType(prior))
    ELSE attacks

\* The attack map once the piece now standing on idx, if any, is put in.
AttacksWith(attacks, board, idx, space) ==
    IF space # SPACE_EMPTY
    THEN attackMapAddPiece(attacks, board, idx, spaceGetColor(space), spaceGetType(space))
    ELSE attacks

\* The piece list once idx holds space instead of prior.
PieceListAfter(list, idx, prior, space) ==
    IF (prior = SPACE_EMPTY) # (space = SPACE_EMPTY)
    THEN IF prior = SPACE_EMPTY THEN Append(list, idx) ELSE PieceListRemove(list, idx)
    ELSE list

\* Board.set that leaves the attacks of the piece it replaces or lifts in the map.
BoardSetKeepsPriorAttacks(B, idx, space) ==
    LET cur == Current(B)
        prior == cur.board[idx]
        board == [cur.board EXCEPT ![idx] = space]
    IN IF prior = SPACE_EMPTY /\ space = SPACE_EMPTY THEN B
       ELSE SetCurrent(B, [cur EXCEPT
               !.board = board,
               !.attacks = AttacksWith(cur.attacks, board, idx, space),
               !.pieceList = PieceListAfter(cur.pieceList, idx, prior, space)])

BoardSet(B, idx, space) ==
    LET cur == Current(B)
        prior == cur.board[idx]
        board == [cur.board EXCEPT ![idx] = space]
    IN IF prior = SPACE_EMPTY /\ space = SPACE_EMPTY THEN B
       ELSE SetCurrent(B, [cur EXCEPT
               !.board = board,
               !.attacks = AttacksWith(AttacksWithout(cur.attacks, cur.board, idx, prior),
                                       board, idx, space),
               !.pieceList = PieceListAfter(cur.pieceList, idx, prior, space)])

\* Board.set called for each <<square, space>> of the list in turn, from the
\* i-th on.
RECURSIVE SetEach(_, _, _)
SetEach(B, writes, i) ==
    IF i > Len(writes) THEN B
    ELSE LET b == BoardSet(B, writes[i][1], writes[i][2])
         IN IF Len(b) = Len(B)    \* set is done before the next one starts
            THEN SetEach(b, writes, i + 1)
            ELSE b

copyLayer(src) == [src EXCEPT !.seen = <<>>]

BoardSave(B) == Append(B, copyLayer(Current(B)))
\* restore that takes the current layer down with it.
BoardRestoreKeepsCurrent(B) ==
    IF Len(B) > 1 THEN Append(SubSeq(B, 1, Len(B) - 2), Current(B)) ELSE B

BoardRestore(B) == IF Len(B) > 1 THEN SubSeq(B, 1, Len(B) - 1) ELSE B

getPriorState(B) ==
    LET cur == Current(B)
    IN [clock |-> cur.clock, moveNum |-> cur.moveNum, ep |-> cur.ep,
        status |-> cur.status, castles |-> cur.castles]

\* The layers, from the current one downwards, whose seen map holds the hash.
LayersSeeing(B, hash) == {i \in 1..Len(B) : hash \in DOMAIN B[i].seen}
NearestSeeing(B, hash) ==
    CHOOSE i \in LayersSeeing(B, hash) : \A j \in LayersSeeing(B, hash) : j <= i

Inc(n) == IF n = NaN THEN NaN ELSE n + 1
Dec(n) == IF n = NaN THEN NaN ELSE n - 1

\* The count taken from the current layer alone.
PutBoardHashCountCurrent(B, hash) ==
    IF hash \in DOMAIN Current(B).seen THEN Inc(Current(B).seen[hash]) ELSE 1

putBoardHashCount(B, hash) ==
    IF LayersSeeing(B, hash) # {}
    THEN Inc(B[NearestSeeing(B, hash)].seen[hash])
    ELSE 1

\* putBoardHash writing the count into the layer where the hash was found.
PutBoardHashWhereFound(B, hash) ==
    LET at == IF LayersSeeing(B, hash) # {} THEN NearestSeeing(B, hash) ELSE Len(B)
    IN [B EXCEPT ![at] = [@ EXCEPT !.seen = (hash :> putBoardHashCount(B, hash)) @@ @]]

putBoardHash(B, hash) ==
    LET cur == Current(B)
    IN SetCurrent(B, [cur EXCEPT !.seen = (hash :> putBoardHashCount(B, hash)) @@ @])

removeBoardHash(B, hash) ==
    LET cur == Current(B)
    IN IF LayersSeeing(B, hash) = {} THEN B
       ELSE IF hash \in DOMAIN cur.seen
       THEN SetCurrent(B, [cur EXCEPT !.seen = (hash :> Dec(cur.seen[hash])) @@ @])
       ELSE SetCurrent(B, [cur EXCEPT !.seen = (hash :> NaN) @@ @])

\* The position hash: piece placement, side to move, castle rights, ep target.
hashBoard(B) ==
    LET cur == Current(B)
    IN <<{cur.pieceList[i] * 16 + (cur.board[cur.pieceList[i]] % 16)
            : i \in 1..Len(cur.pieceList)},
         cur.turn,
         <<Min2(Nibble(cur.castles, 0), 8), Min2(Nibble(cur.castles, 4), 8),
           Min2(Nibble(cur.castles, 8), 8), Min2(Nibble(cur.castles, 12), 8)>>,
         cur.ep>>

(***************************************************************************)
(* Move records.                                                           *)
(***************************************************************************)
createFullMove(what, from, to, capture, captureCoord, castleRook, castleRookFrom, castleRookTo, promote, markEnPassant, prior) ==
    [what |-> what, from |-> from, to |-> to, capture |-> capture,
     captureCoord |-> captureCoord, castleRook |-> castleRook,
     castleRookFrom |-> castleRookFrom, castleRookTo |-> castleRookTo,
     promote |-> promote, markEnPassant |-> markEnPassant, prior |-> prior]

createSimpleMove(what, from, to, prior) ==
    createFullMove(what, from, to, 0, 0, 0, 0, 0, 0, 0, prior)

createSimpleCapture(what, from, to, capture, captureCoord, prior) ==
    createFullMove(what, from, to, capture, captureCoord, 0, 0, 0, 0, 0, prior)

createCastle(what, from, to, castleRook, castleRookFrom, castleRookTo, prior) ==
    createFullMove(what, from, to, 0, 0, castleRook, castleRookFrom, castleRookTo,
                   0, 0, prior)

moveToPromotion(move, promote) == [move EXCEPT !.promote = promote]

(***************************************************************************)
(* Applying and reverting a move.                                          *)
(***************************************************************************)
kingInDanger(B, kingColor) ==
    LET cur == Current(B)
    IN \E i \in 1..Len(cur.pieceList) :
          LET idx == cur.pieceList[i]
              spot == cur.board[idx]
          IN /\ spaceGetType(spot) = PIECETYPE_KING
             /\ spaceGetColor(spot) = kingColor
             /\ attackMapIsAttacked(cur, idx, 8 - kingColor)

\* The squares performMove sets, in its order: the captured piece leaves, the
\* mover goes from its origin to its destination, the castling rook follows, a
\* pawn promotes.
PerformWrites(move) ==
    (IF move.capture # 0 THEN << <<move.captureCoord, SPACE_EMPTY>> >> ELSE <<>>)
       \o << <<move.from, SPACE_EMPTY>>, <<move.to, spaceMarkMoved(move.what)>> >>
       \o (IF move.castleRook # 0
           THEN << <<move.castleRookFrom, SPACE_EMPTY>>,
                   <<move.castleRookTo, spaceMarkMoved(move.castleRook)>> >>
           ELSE <<>>)
       \o (IF move.promote # 0
           THEN << <<move.to, encodePieceSpace(move.promote, spaceGetColor(move.what),
                                              TRUE)>> >>
           ELSE <<>>)

PerformPieces(B, move) == SetEach(B, PerformWrites(move), 1)

\* CastlesAfter that does not look at the piece taken.
CastlesAfterOfTheMoverOnly(castles, move) ==
    LET type == spaceGetType(move.what)
    IN IF type = PIECETYPE_KING
       THEN castleMapKingMoved(castles, spaceGetColor(move.what))
       ELSE IF type = PIECETYPE_ROOK
       THEN castleMapRookMoved(castles, move.from)
       ELSE castles

CastlesAfter(castles, move) ==
    LET type == spaceGetType(move.what)
        moved == IF type = PIECETYPE_KING
                 THEN castleMapKingMoved(castles, spaceGetColor(move.what))
                 ELSE IF type = PIECETYPE_ROOK
                 THEN castleMapRookMoved(castles, move.from)
                 ELSE castles
    IN IF move.capture # 0 /\ spaceGetType(move.capture) = PIECETYPE_ROOK
       THEN castleMapRookMoved(moved, move.captureCoord)
       ELSE moved

\* MoveMeta that leaves the en-passant square of a move that marks none.
MoveMetaKeepsEp(cur, old, move) ==
    [cur EXCEPT
       !.ep = IF move.markEnPassant # 0 THEN move.markEnPassant ELSE old.ep,
       !.clock = IF spaceGetType(move.what) = PIECETYPE_PAWN \/ move.capture # 0
                 THEN 0 ELSE old.clock + 1,
       !.castles = CastlesAfter(old.castles, move),
       !.moveNum = IF spaceGetColor(move.what) = COLOR_BLACK
                   THEN old.moveNum + 1 ELSE old.moveNum,
       !.turn = 8 - old.turn,
       !.moveCache = [c \in {COLOR_WHITE, COLOR_BLACK} |-> NoCache]]

\* The counters, rights and side to move after the move; old is the layer the
\* move was made from.
MoveMeta(cur, old, move) ==
    [cur EXCEPT
       !.ep = IF move.markEnPassant # 0 THEN move.markEnPassant ELSE NO_EP,
       !.clock = IF spaceGetType(move.what) = PIECETYPE_PAWN \/ move.capture # 0
                 THEN 0 ELSE old.clock + 1,
       !.castles = CastlesAfter(old.castles, move),
       !.moveNum = IF spaceGetColor(move.what) = COLOR_BLACK
                   THEN old.moveNum + 1 ELSE old.moveNum,
       !.turn = 8 - old.turn,
       !.moveCache = [c \in {COLOR_WHITE, COLOR_BLACK} |-> NoCache]]

WithMoveMeta(b, old, move) == SetCurrent(b, MoveMeta(Current(b), old, move))

HashPut(b) == putBoardHash(b, hashBoard(b))

performMove(B, move) ==
    HashPut(WithMoveMeta(PerformPieces(B, move), Current(B), move))

HashRemoved(B) == removeBoardHash(B, hashBoard(B))

\* The squares revertMove sets, in its order.
RevertWrites(move) ==
    << <<move.from, move.what>>, <<move.to, SPACE_EMPTY>> >>
       \o (IF move.capture # 0 THEN << <<move.captureCoord, move.capture>> >> ELSE <<>>)
       \o (IF move.castleRook # 0
           THEN << <<move.castleRookTo, SPACE_EMPTY>>,
                   <<move.castleRookFrom, move.castleRook>> >>
           ELSE <<>>)

PriorMeta(cur, move) ==
    [cur EXCEPT
       !.clock = move.prior.clock,
       !.moveNum = move.prior.moveNum,
       !.ep = move.prior.ep,
       !.status = move.prior.status,
       !.castles = move.prior.castles,
       !.turn = 8 - cur.turn,
       !.moveCache = [c \in {COLOR_WHITE, COLOR_BLACK} |-> NoCache]]

WithPriorMeta(b, move) == SetCurrent(b, PriorMeta(Current(b), move))

revertMove(B, move) ==
    WithPriorMeta(SetEach(HashRemoved(B), RevertWrites(move), 1), move)

(***************************************************************************)
(* The legal-move generator.                                               *)
(***************************************************************************)
\* _tryPushMove without the trial: every candidate is pushed.
TryPushMoveUnchecked(B, move) ==
    IF move.promote # 0
    THEN [i \in 1..Len(PROMOTIONS) |-> moveToPromotion(move, PROMOTIONS[i])]
    ELSE <<move>>

\* _tryPushMove that pushes a promoting move once, as a queen.
TryPushMoveQueenOnly(B, move) ==
    IF ~kingInDanger(performMove(BoardSave(B), move), spaceGetColor(move.what))
    THEN IF move.promote # 0
         THEN <<moveToPromotion(move, PIECETYPE_QUEEN)>>
         ELSE <<move>>
    ELSE <<>>

\* Pushes the candidate, unless it leaves the mover's own king attacked.
_tryPushMove(B, move) ==
    IF ~kingInDanger(performMove(BoardSave(B), move), spaceGetColor(move.what))
    THEN IF move.promote # 0
         THEN [i \in 1..Len(PROMOTIONS) |-> moveToPromotion(move, PROMOTIONS[i])]
         ELSE <<move>>
    ELSE <<>>

\* One direction of _findMoves: the inner loop from newIdx on, n steps taken.
RECURSIVE FindMovesRay(_, _, _, _, _, _, _, _)
FindMovesRay(B, sp, idx, step, newIdx, n, maxDist, prior) ==
    IF ~(OnBoard(newIdx) /\ n < maxDist) THEN <<>>
    ELSE IF BoardGet(B, newIdx) = SPACE_EMPTY
    THEN _tryPushMove(B, createSimpleMove(sp, idx, newIdx, prior))
            \o FindMovesRay(B, sp, idx, step, newIdx + step, n + 1, maxDist, prior)
    ELSE IF spaceGetColor(BoardGet(B, newIdx)) = 8 - spaceGetColor(sp)
    THEN _tryPushMove(B, createSimpleCapture(sp, idx, newIdx, BoardGet(B, newIdx),
                                             newIdx, prior))
    ELSE <<>>

\* The loop over dirs[dirsLow] to dirs[dirsHigh - 1], counted from 0 as in the
\* source and taken in halves: the moves come out in the order of the loop.
RECURSIVE _findMoves(_, _, _, _, _, _, _, _)
_findMoves(B, sp, idx, dirs, dirsLow, dirsHigh, maxDist, prior) ==
    IF dirsLow >= dirsHigh THEN <<>>
    ELSE IF dirsLow + 1 < dirsHigh
    THEN _findMoves(B, sp, idx, dirs, dirsLow, (dirsLow + dirsHigh) \div 2, maxDist, prior)
            \o _findMoves(B, sp, idx, dirs, (dirsLow + dirsHigh) \div 2, dirsHigh,
                          maxDist, prior)
    ELSE FindMovesRay(B, sp, idx, dirs[dirsLow + 1], idx + dirs[dirsLow + 1], 0,
                      maxDist, prior)

\* The board with a king of the castling side on every square of the king's
\* path, the king and the rook lifted first.
RECURSIVE PlaceKings(_, _, _, _)
PlaceKings(B, what, idx, kingHigh) ==
    IF idx > kingHigh THEN B
    ELSE PlaceKings(BoardSet(B, idx, what), what, idx + 1, kingHigh)

\* CastleBlocked that looks at the squares of the king's way only.
CastleBlockedOnKingsWay(B, move, min, max) ==
    \E idx \in Min2(move.from, move.to)..Max2(move.from, move.to) :
       /\ idx # move.from
       /\ idx # move.castleRookFrom
       /\ BoardGet(B, idx) # SPACE_EMPTY

\* Whether a piece other than the king and the rook stands between the squares
\* the two of them leave and reach.
CastleBlocked(B, move, min, max) ==
    \E idx \in min..max :
       /\ idx # move.from
       /\ idx # move.castleRookFrom
       /\ BoardGet(B, idx) # SPACE_EMPTY

CastleSpan(B, move) ==
    CastleBlocked(B, move,
                  Min2(Min2(move.castleRookFrom, move.castleRookTo), Min2(move.from, move.to)),
                  Max2(Max2(move.castleRookFrom, move.castleRookTo), Max2(move.from, move.to)))

\* Whether the king is attacked on a square from where it stands to where it lands.
CastlePathInDanger(B, move) ==
    kingInDanger(PlaceKings(BoardSet(BoardSet(BoardSave(B), move.from, SPACE_EMPTY),
                                     move.castleRookFrom, SPACE_EMPTY),
                            move.what, Min2(move.from, move.to), Max2(move.from, move.to)),
                 spaceGetColor(move.what))

\* _tryCastle that does not look at the squares the king passes.
TryCastleIgnoringPath(B, move) ==
    IF CastleSpan(B, move) THEN <<>> ELSE _tryPushMove(B, move)

_tryCastle(B, move) ==
    IF CastleSpan(B, move) THEN <<>>
    ELSE IF CastlePathInDanger(B, move) THEN <<>>
    ELSE _tryPushMove(B, move)

\* idx & 0xf0
RankOf(idx) == (idx \div 16) * 16

\* The castle of the king on idx with the rook on the given file, if the
\* rights still name one.
CastleWith(B, sp, idx, rookFile, kingTo, rookTo, prior) ==
    IF rookFile < 8
    THEN _tryCastle(B, createCastle(sp, idx, RankOf(idx) + kingTo,
                                    BoardGet(B, RankOf(idx) + rookFile),
                                    RankOf(idx) + rookFile, RankOf(idx) + rookTo, prior))
    ELSE <<>>

\* _findKingCastles without the test of the king's moved bit.
FindKingCastlesOfMovedKing(B, sp, idx, prior) ==
    CastleWith(B, sp, idx,
               castleMapGetFile(Current(B).castles, spaceGetColor(sp), TRUE),
               6, 5, prior)
      \o CastleWith(B, sp, idx,
                    castleMapGetFile(Current(B).castles, spaceGetColor(sp), FALSE),
                    2, 3, prior)

_findKingCastles(B, sp, idx, prior) ==
    IF spaceHasMoved(sp) THEN <<>>
    ELSE CastleWith(B, sp, idx,
                    castleMapGetFile(Current(B).castles, spaceGetColor(sp), TRUE),
                    6, 5, prior)
           \o CastleWith(B, sp, idx,
                         castleMapGetFile(Current(B).castles, spaceGetColor(sp), FALSE),
                         2, 3, prior)

\* The capture squares of a pawn, the en-passant capture taking the piece on
\* the square the pawn lands on.
PawnCaptureOnLanding(B, sp, idx, oneUp, step, promote, prior) ==
    LET coord == oneUp + step
        ep == Current(B).ep
    IN IF ~OnBoard(coord) THEN <<>>
       ELSE IF coord = ep
       THEN _tryPushMove(B, createFullMove(sp, idx, coord, BoardGet(B, idx + step),
                                           coord, 0, 0, 0, promote, 0, prior))
       ELSE IF BoardGet(B, coord) # SPACE_EMPTY
               /\ spaceGetColor(BoardGet(B, coord)) = 8 - spaceGetColor(sp)
       THEN _tryPushMove(B, createFullMove(sp, idx, coord, BoardGet(B, coord),
                                           coord, 0, 0, 0, promote, 0, prior))
       ELSE <<>>

\* One of the two capture squares of a pawn, the en-passant capture included.
PawnCapture(B, sp, idx, oneUp, step, promote, prior) ==
    LET coord == oneUp + step
        ep == Current(B).ep
    IN IF ~OnBoard(coord) THEN <<>>
       ELSE IF coord = ep
       THEN _tryPushMove(B, createFullMove(sp, idx, coord, BoardGet(B, idx + step),
                                           idx + step, 0, 0, 0, promote, 0, prior))
       ELSE IF BoardGet(B, coord) # SPACE_EMPTY
               /\ spaceGetColor(BoardGet(B, coord)) = 8 - spaceGetColor(sp)
       THEN _tryPushMove(B, createFullMove(sp, idx, coord, BoardGet(B, coord),
                                           coord, 0, 0, 0, promote, 0, prior))
       ELSE <<>>

PawnDir(sp) == IF spaceGetColor(sp) = COLOR_WHITE THEN 1 ELSE -1

\* The loop over PAWN_CAPS, from its i-th entry on.
RECURSIVE PawnCaptures(_, _, _, _, _, _, _)
PawnCaptures(B, sp, idx, oneUp, promote, prior, i) ==
    IF i > Len(PAWN_CAPS) THEN <<>>
    ELSE PawnCapture(B, sp, idx, oneUp, PAWN_CAPS[i], promote, prior)
            \o PawnCaptures(B, sp, idx, oneUp, promote, prior, i + 1)

\* PawnDoublePush without the test of the moved bit.
PawnDoublePushOfAnyPawn(B, sp, idx, oneUp, twoUp, prior) ==
    IF OnBoard(twoUp) /\ BoardGet(B, twoUp) = SPACE_EMPTY
    THEN _tryPushMove(B, createFullMove(sp, idx, twoUp, 0, 0, 0, 0, 0, 0, oneUp, prior))
    ELSE <<>>

\* The double push of a pawn that has not moved, over the empty square oneUp.
PawnDoublePush(B, sp, idx, oneUp, twoUp, prior) ==
    IF ~spaceHasMoved(sp) /\ OnBoard(twoUp) /\ BoardGet(B, twoUp) = SPACE_EMPTY
    THEN _tryPushMove(B, createFullMove(sp, idx, twoUp, 0, 0, 0, 0, 0, 0, oneUp, prior))
    ELSE <<>>

PawnPush(B, sp, idx, oneUp, twoUp, promote, prior) ==
    IF BoardGet(B, oneUp) = SPACE_EMPTY
    THEN _tryPushMove(B, createFullMove(sp, idx, oneUp, 0, 0, 0, 0, 0, promote, 0, prior))
            \o PawnDoublePush(B, sp, idx, oneUp, twoUp, prior)
    ELSE <<>>

PawnMovesTowards(B, sp, idx, oneUp, twoUp, promote, prior) ==
    IF ~OnBoard(oneUp) THEN <<>>
    ELSE PawnPush(B, sp, idx, oneUp, twoUp, promote, prior)
            \o PawnCaptures(B, sp, idx, oneUp, promote, prior, 1)

_pawnMoves(B, sp, idx, prior) ==
    PawnMovesTowards(B, sp, idx,
                     idx + 16 * PawnDir(sp), idx + 32 * PawnDir(sp),
                     IF ~OnBoard(idx + 32 * PawnDir(sp)) THEN PIECETYPE_QUEEN ELSE 0,
                     prior)

\* The moves of the piece on idx; the board is left as it was.
PieceMoves(b, sp, idx, type, prior) ==
    IF type = PIECETYPE_BISHOP THEN _findMoves(b, sp, idx, DIRS, 4, 8, 8, prior)
    ELSE IF type = PIECETYPE_ROOK THEN _findMoves(b, sp, idx, DIRS, 0, 4, 8, prior)
    ELSE IF type = PIECETYPE_QUEEN THEN _findMoves(b, sp, idx, DIRS, 0, 8, 8, prior)
    ELSE IF type = PIECETYPE_KNIGHT THEN _findMoves(b, sp, idx, KNIGHT, 0, 8, 1, prior)
    ELSE IF type = PIECETYPE_KING
    THEN _findMoves(b, sp, idx, DIRS, 0, 8, 1, prior) \o _findKingCastles(b, sp, idx, prior)
    ELSE IF type = PIECETYPE_PAWN THEN _pawnMoves(b, sp, idx, prior)
    ELSE <<>>

listValidMoves(B, idx) ==
    PieceMoves(BoardSet(BoardSave(B), idx, SPACE_EMPTY), BoardGet(B, idx), idx,
               spaceGetType(BoardGet(B, idx)), getPriorState(B))

\* The loop of listAllValidMoves over entries lo..hi of the piece list, taken
\* in halves: the moves come out in the order of the loop.
RECURSIVE GenerateFrom(_, _, _, _)
GenerateFrom(B, color, lo, hi) ==
    IF lo > hi THEN <<>>
    ELSE IF lo < hi
    THEN GenerateFrom(B, color, lo, (lo + hi) \div 2)
            \o GenerateFrom(B, color, (lo + hi) \div 2 + 1, hi)
    ELSE IF spaceGetColor(BoardGet(B, Current(B).pieceList[lo])) = color
    THEN listValidMoves(B, Current(B).pieceList[lo])
    ELSE <<>>

GenerateAll(B, color) == GenerateFrom(B, color, 1, Len(Current(B).pieceList))

\* What listAllValidMoves returns: the cached list when there is one.
listAllValidMoves(B, color) ==
    LET cached == Current(B).moveCache[color]
    IN IF cached # NoCache THEN cached[1] ELSE GenerateAll(B, color)

\* The board after listAllValidMoves: the list is kept in the cache.
AfterListAll(B, color) ==
    LET cur == Current(B)
    IN IF cur.moveCache[color] # NoCache THEN B
       ELSE SetCurrent(B, [cur EXCEPT !.moveCache[color] = <<GenerateAll(B, color)>>])

(***************************************************************************)
(* Board layouts.                                                          *)
(***************************************************************************)
BACK_ROW == <<PIECETYPE_ROOK, PIECETYPE_KNIGHT, PIECETYPE_BISHOP, PIECETYPE_QUEEN,
              PIECETYPE_KING, PIECETYPE_BISHOP, PIECETYPE_KNIGHT, PIECETYPE_ROOK>>
PAWN_ROW == [i \in 1..8 |-> PIECETYPE_PAWN]

RECURSIVE _setRow(_, _, _, _, _)
_setRow(B, color, start, pieces, i) ==
    IF i >= 8 THEN B
    ELSE LET b == BoardSet(B, start + i, encodePieceSpace(pieces[i + 1], color, FALSE))
         IN IF Len(b) = Len(B)    \* set is done before the next one starts
            THEN _setRow(b, color, start, pieces, i + 1)
            ELSE b

buildStandardBoard ==
    LET b1 == _setRow(<<newLayer>>, COLOR_WHITE, 0, BACK_ROW, 0)
        b2 == _setRow(b1, COLOR_WHITE, 16, PAWN_ROW, 0)
        b3 == _setRow(b2, COLOR_BLACK, 96, PAWN_ROW, 0)
        b4 == _setRow(b3, COLOR_BLACK, 112, BACK_ROW, 0)
        b5 == SetCurrent(b4, [Current(b4) EXCEPT !.castles = buildCastleMap(0, 7, 112, 119)])
    IN putBoardHash(b5, hashBoard(b5))

(***************************************************************************)
(* perft.                                                                  *)
(***************************************************************************)
RECURSIVE perft(_, _)
RECURSIVE PerftSum(_, _, _, _)
PerftSum(B, list, depth, i) ==
    IF i > Len(list) THEN 0
    ELSE perft(performMove(BoardSave(B), list[i]), depth - 1)
            + PerftSum(B, list, depth, i + 1)

perft(B, depth) ==
    LET list == listAllValidMoves(B, Current(B).turn)
    IN IF depth <= 1 THEN Len(list) ELSE PerftSum(B, list, depth, 1)

(***************************************************************************)
(* The outcome classifier.                                                 *)
(***************************************************************************)
SquareShade(sq) == ((sq % 16) + (sq \div 16)) % 2

boardLacksMaterial(B) ==
    LET cur == Current(B)
        others == {sq \in Squares : cur.board[sq] # SPACE_EMPTY
                                    /\ spaceGetType(cur.board[sq]) # PIECETYPE_KING}
        side(c) == {sq \in others : spaceGetColor(cur.board[sq]) = c}
        minor(sq) == spaceGetType(cur.board[sq]) \in {PIECETYPE_BISHOP, PIECETYPE_KNIGHT}
        bishop(sq) == spaceGetType(cur.board[sq]) = PIECETYPE_BISHOP
    IN \/ others = {}
       \/ /\ Cardinality(others) = 1
          /\ \A sq \in others : minor(sq)
       \/ /\ Cardinality(side(COLOR_WHITE)) = 1
          /\ Cardinality(side(COLOR_BLACK)) = 1
          /\ \A sq \in others : bishop(sq)
          /\ \A a, b \in others : SquareShade(a) = SquareShade(b)

\* _nextState with the fifty-move rule looked at before mate and stalemate.
NextStateDrawsFirst(B, enemyInCheck, enemyCanMove, timesMoveSeen) ==
    IF Current(B).clock >= 100 THEN GAMESTATUS_DRAW_FIFTYMOVES
    ELSE IF ~enemyCanMove
    THEN IF enemyInCheck THEN GAMESTATUS_CHECKMATE ELSE GAMESTATUS_DRAW_STALEMATE
    ELSE IF timesMoveSeen >= 3 THEN GAMESTATUS_DRAW_REPETITION
    ELSE IF boardLacksMaterial(B) THEN GAMESTATUS_DRAW_NOMATERIAL
    ELSE Current(B).status

\* _nextState with the fifty-move rule one ply late.
NextStateFiftyLate(B, enemyInCheck, enemyCanMove, timesMoveSeen) ==
    IF ~enemyCanMove
    THEN IF enemyInCheck THEN GAMESTATUS_CHECKMATE ELSE GAMESTATUS_DRAW_STALEMATE
    ELSE IF Current(B).clock > 100 THEN GAMESTATUS_DRAW_FIFTYMOVES
    ELSE IF timesMoveSeen >= 3 THEN GAMESTATUS_DRAW_REPETITION
    ELSE IF boardLacksMaterial(B) THEN GAMESTATUS_DRAW_NOMATERIAL
    ELSE Current(B).status

_nextState(B, enemyInCheck, enemyCanMove, timesMoveSeen) ==
    IF ~enemyCanMove
    THEN IF enemyInCheck THEN GAMESTATUS_CHECKMATE ELSE GAMESTATUS_DRAW_STALEMATE
    ELSE IF Current(B).clock >= 100 THEN GAMESTATUS_DRAW_FIFTYMOVES
    ELSE IF timesMoveSeen >= 3 THEN GAMESTATUS_DRAW_REPETITION
    ELSE IF boardLacksMaterial(B) THEN GAMESTATUS_DRAW_NOMATERIAL
    ELSE Current(B).status

\* The MoveResults and the board once the position is hashed again.
CheckCounted(after, enemyInCheck, enemyCanMove, timesMoveSeen) ==
    [results |-> [enemyInCheck |-> enemyInCheck,
                  enemyCanMove |-> enemyCanMove,
                  timesMoveSeen |-> timesMoveSeen,
                  newGameStatus |-> _nextState(after, enemyInCheck, enemyCanMove,
                                               timesMoveSeen)],
     board |-> after]

\* checkMoveResults once the enemy's moves are listed.
CheckListed(listed, enemyInCheck, enemy) ==
    CheckCounted(HashPut(listed), enemyInCheck,
                 Len(listAllValidMoves(listed, enemy)) > 0,
                 putBoardHashCount(listed, hashBoard(listed)))

\* checkMoveResults: the MoveResults it returns (with the count put_hash gave),
\* and the board it leaves: the enemy's moves cached and the position hashed.
checkMoveResults(B, moveColor) ==
    CheckListed(AfterListAll(B, 8 - moveColor), kingInDanger(B, 8 - moveColor),
                8 - moveColor)

(***************************************************************************)
(* The game facade.                                                        *)
(***************************************************************************)
NoWinner == "none"
NoInput == [kind |-> "none", from |-> <<>>, to |-> <<>>, promotion |-> <<>>, text |-> <<>>]
NoCall == [op |-> "none", input |-> NoInput]
\* No list is held; a held list is the list, the colour it was asked for and
\* whether it is an array of its own or the array the move cache holds.
NoList == [list |-> <<>>, color |-> COLOR_WHITE, own |-> TRUE]
NoResults == <<>>
SideName(color) == IF color = COLOR_WHITE THEN "white" ELSE "black"

\* isGameOver that knows of mate and draws only.
IsGameOverByPlay(B) ==
    Current(B).status # GAMESTATUS_ACTIVE /\ Current(B).status # GAMESTATUS_RESIGNED

isGameOver(B) == Current(B).status # GAMESTATUS_ACTIVE

\* maybeRefreshWinner that takes the side to move for the winner.
MaybeRefreshWinnerToMove(B, winner) ==
    IF Current(B).status = GAMESTATUS_CHECKMATE THEN SideName(Current(B).turn)
    ELSE IF Current(B).status >= GAMESTATUS_DRAW THEN "draw"
    ELSE winner

maybeRefreshWinner(B, winner) ==
    LET status == Current(B).status
        turn == Current(B).turn
    IN IF status = GAMESTATUS_CHECKMATE
       THEN IF turn = COLOR_WHITE THEN "black" ELSE "white"
       ELSE IF status >= GAMESTATUS_DRAW THEN "draw"
       ELSE winner

\* board.current.status = results.newGameStatus
StatusStored(checked) ==
    [board |-> SetCurrent(checked.board,
                          [Current(checked.board) EXCEPT
                              !.status = checked.results.newGameStatus]),
     results |-> checked.results]

\* _objectMove once the moves are listed: a move that is not among them is a
\* ChessBadMove and nothing is done.
DoPicked(listed, picked, turn) ==
    IF \A i \in DOMAIN listAllValidMoves(listed, turn) :
          listAllValidMoves(listed, turn)[i] # picked
    THEN [results |-> NoResults, board |-> listed]
    ELSE StatusStored(checkMoveResults(performMove(listed, picked), turn))

\* doGameMove once the move is picked: the move is applied, its results are
\* checked and the new status is stored.
doGameMove(B, picked) ==
    DoPicked(AfterListAll(B, Current(B).turn), picked, Current(B).turn)

(***************************************************************************)
(* Coordinates in algebraic notation, and moves in Standard Algebraic      *)
(* Notation. A string is the sequence of its characters.                   *)
(***************************************************************************)
FILES == <<"a", "b", "c", "d", "e", "f", "g", "h">>
RANKS == <<"1", "2", "3", "4", "5", "6", "7", "8">>

\* [idx & 0x7, idx >>> 4]
parseCoord(idx) == <<idx % 8, idx \div 16>>
\* ((rank & 0x7) << 4) | (file & 0x7)
buildCoord(file, rank) == ((rank % 8) * 16) + (file % 8)
\* charCodeAt(0) - 97 of a file letter, charCodeAt(0) - 49 of a rank digit
CharIndex(chars, ch) == (CHOOSE i \in 1..Len(chars) : chars[i] = ch) - 1
coordFromAN(an) == buildCoord(CharIndex(FILES, an[1]), CharIndex(RANKS, an[2]))
coordToAN(idx) == <<FILES[parseCoord(idx)[1] + 1], RANKS[parseCoord(idx)[2] + 1]>>

_anPieceType(t) ==
    IF t = PIECETYPE_BISHOP THEN <<"B">>
    ELSE IF t = PIECETYPE_KNIGHT THEN <<"N">>
    ELSE IF t = PIECETYPE_ROOK THEN <<"R">>
    ELSE IF t = PIECETYPE_QUEEN THEN <<"Q">>
    ELSE IF t = PIECETYPE_KING THEN <<"K">>
    ELSE <<>>

\* The result is optional: NoResults stands for none given.
_checksAndMates(given) ==
    IF given = NoResults \/ ~given[1].enemyInCheck THEN <<>>
    ELSE IF given[1].enemyCanMove THEN <<"+">> ELSE <<"#">>

\* The moves of the same piece type from another square to the same square.
Similar(list, move) ==
    {i \in 1..Len(list) : /\ list[i].from # move.from
                          /\ list[i].to = move.to
                          /\ spaceGetType(list[i].what) = spaceGetType(move.what)}

\* _getDeparture that never names the full square: the rank is its last resort.
GetDepartureNoFull(list, move) ==
    IF spaceGetType(move.what) = PIECETYPE_PAWN /\ move.capture # 0
    THEN <<coordToAN(move.from)[1]>>
    ELSE IF Similar(list, move) = {} THEN <<>>
    ELSE IF \A i \in Similar(list, move) : parseCoord(list[i].from)[1] # parseCoord(move.from)[1]
    THEN <<coordToAN(move.from)[1]>>
    ELSE <<coordToAN(move.from)[2]>>

\* _getDeparture that tells twins apart by the file only.
GetDepartureByFile(list, move) ==
    IF spaceGetType(move.what) = PIECETYPE_PAWN /\ move.capture # 0
    THEN <<coordToAN(move.from)[1]>>
    ELSE IF Similar(list, move) = {} THEN <<>>
    ELSE <<coordToAN(move.from)[1]>>

_getDeparture(list, move) ==
    IF spaceGetType(move.what) = PIECETYPE_PAWN /\ move.capture # 0
    THEN <<coordToAN(move.from)[1]>>
    ELSE IF Similar(list, move) = {} THEN <<>>
    ELSE IF \A i \in Similar(list, move) : parseCoord(list[i].from)[1] # parseCoord(move.from)[1]
    THEN <<coordToAN(move.from)[1]>>
    ELSE IF \A i \in Similar(list, move) : parseCoord(list[i].from)[2] # parseCoord(move.from)[2]
    THEN <<coordToAN(move.from)[2]>>
    ELSE coordToAN(move.from)

moveToSAN(list, move, given) ==
    (IF move.castleRook # 0
     THEN IF move.castleRookFrom < move.from THEN <<"O", "-", "O", "-", "O">>
          ELSE <<"O", "-", "O">>
     ELSE _anPieceType(spaceGetType(move.what))
          \o _getDeparture(list, move)
          \o (IF move.capture # 0 THEN <<"x">> ELSE <<>>)
          \o coordToAN(move.to)
          \o (IF move.promote # 0 THEN <<"=">> \o _anPieceType(move.promote) ELSE <<>>))
    \o _checksAndMates(given)

\* The characters the two patterns skip at the end of a move, one by one.
Annotations == {"+", "#", "!", "?"}
Annotated(san, from) == \A i \in from..Len(san) : san[i] \in Annotations
StartsWith(san, word) ==
    /\ Len(san) >= Len(word)
    /\ \A i \in 1..Len(word) : san[i] = word[i]

\* CASTLE_RE: the length of its group 1, or 0 when the pattern does not match.
CastleMatch(san) ==
    IF StartsWith(san, <<"O", "-", "O", "-", "O">>) /\ Annotated(san, 6) THEN 5
    ELSE IF StartsWith(san, <<"O", "-", "O">>) /\ Annotated(san, 4) THEN 3
    ELSE 0

PieceLetters == {"B", "N", "R", "Q", "K"}
PromotionLetters == {"B", "N", "R", "Q"}
InChars(chars, ch) == \E i \in 1..Len(chars) : chars[i] = ch

\* MOVE_RE: the ways its optional groups 1, 2, 3, 4 and 6 can be present (1) or
\* absent (0) so that the whole string matches.
MoveMatches(san) ==
    {g \in [piece : {0, 1}, file : {0, 1}, rank : {0, 1}, x : {0, 1}, promote : {0, 1}] :
        LET n == g.piece + g.file + g.rank + g.x
        IN /\ Len(san) >= n + 2 + 2 * g.promote
           /\ g.piece = 1 => san[1] \in PieceLetters
           /\ g.file = 1 => InChars(FILES, san[g.piece + 1])
           /\ g.rank = 1 => InChars(RANKS, san[g.piece + g.file + 1])
           /\ g.x = 1 => san[n] = "x"
           /\ InChars(FILES, san[n + 1])
           /\ InChars(RANKS, san[n + 2])
           /\ g.promote = 1 => (san[n + 3] = "=" /\ san[n + 4] \in PromotionLetters)
           /\ Annotated(san, n + 3 + 2 * g.promote)}

\* The groups of the match: the text of each, <<>> for an absent one.
MoveGroups(san, g) ==
    [piece |-> IF g.piece = 1 THEN <<san[1]>> ELSE <<>>,
     file |-> IF g.file = 1 THEN <<san[g.piece + 1]>> ELSE <<>>,
     rank |-> IF g.rank = 1 THEN <<san[g.piece + g.file + 1]>> ELSE <<>>,
     x |-> g.x = 1,
     dest |-> <<san[g.piece + g.file + g.rank + g.x + 1],
                san[g.piece + g.file + g.rank + g.x + 2]>>,
     promote |-> IF g.promote = 1 THEN <<san[g.piece + g.file + g.rank + g.x + 4]>>
                 ELSE <<>>]

PIECETYPE_MAP(letter) ==
    IF letter = <<>> THEN PIECETYPE_PAWN
    ELSE IF letter = <<"B">> THEN PIECETYPE_BISHOP
    ELSE IF letter = <<"N">> THEN PIECETYPE_KNIGHT
    ELSE IF letter = <<"R">> THEN PIECETYPE_ROOK
    ELSE IF letter = <<"Q">> THEN PIECETYPE_QUEEN
    ELSE PIECETYPE_KING

\* The test findMoveBySAN makes of a move against the groups of MOVE_RE.
SanSelects(m, move) ==
    /\ coordFromAN(m.dest) = move.to
    /\ spaceGetType(move.what) = PIECETYPE_MAP(m.piece)
    /\ m.file # <<>> => move.from % 8 = CharIndex(FILES, m.file[1])
    /\ m.rank # <<>> => (move.from \div 16) % 8 = CharIndex(RANKS, m.rank[1])
    /\ IF m.x THEN move.capture # 0 ELSE move.capture = 0
    /\ m.promote # <<>> => move.promote = PIECETYPE_MAP(m.promote)

\* The test it makes for a castle: the file the rook lands on.
CastleSelects(length, move) ==
    IF length = 5 THEN move.castleRookTo % 8 = 3 ELSE move.castleRookTo % 8 = 5

NoMove == <<>>
Found(move) == [error |-> "none", move |-> move]
Thrown(error) == [error |-> error, move |-> NoMove]
First(S) == CHOOSE i \in S : \A j \in S : i <= j

\* _selectMoveByInvariant that takes the first of several matches.
SelectFirstMatch(list, selected) ==
    IF selected = {} THEN Thrown("ChessBadMove")
    ELSE Found(list[First(selected)])

\* _selectMoveByInvariant, given the indices of the moves its test selects: the
\* loop throws at the second of them.
_selectMoveByInvariant(list, selected) ==
    IF selected = {} THEN Thrown("ChessBadMove")
    ELSE IF Cardinality(selected) = 1 THEN Found(list[First(selected)])
    ELSE IF /\ list[First(selected)].promote # 0
            /\ list[First(selected \ {First(selected)})].promote # 0
    THEN Thrown("ChessNeedsPromotion")
    ELSE Thrown("ChessBadMove")

SelectByGroups(list, m) ==
    _selectMoveByInvariant(list, {i \in 1..Len(list) : SanSelects(m, list[i])})

findMoveBySAN(list, san) ==
    IF CastleMatch(san) # 0
    THEN _selectMoveByInvariant(list, {i \in 1..Len(list) :
                                          CastleSelects(CastleMatch(san), list[i])})
    ELSE IF MoveMatches(san) = {} THEN Thrown("ChessBadMove")
    ELSE SelectByGroups(list, MoveGroups(san, CHOOSE g \in MoveMatches(san) : TRUE))

(***************************************************************************)
(* Moves given to the game as an object, as a UCI string or in SAN.        *)
(***************************************************************************)
\* toUpperCase of a letter that may name a promotion piece.
ToUpperCase(ch) ==
    IF ch = "b" THEN "B" ELSE IF ch = "n" THEN "N"
    ELSE IF ch = "r" THEN "R" ELSE IF ch = "q" THEN "Q" ELSE ch

\* PROMOTE_MAP[letter]; 0 stands for undefined.
PROMOTE_MAP(ch) ==
    IF ch = "N" THEN PIECETYPE_KNIGHT
    ELSE IF ch = "B" THEN PIECETYPE_BISHOP
    ELSE IF ch = "R" THEN PIECETYPE_ROOK
    ELSE IF ch = "Q" THEN PIECETYPE_QUEEN
    ELSE 0

\* What doGameMove chooses to do: the error it throws, or "none" and the move
\* it picked.
ChoiceThrown(error) == [error |-> error, picked |-> NoMove]
ChoicePicked(move) == [error |-> "none", picked |-> move]

\* moves.find(...) of _objectMove and _uciMove: the indices of the moves with
\* the squares and, when one is given, the promotion piece.
WithSquares(list, fromIdx, toIdx, promoteType) ==
    {i \in 1..Len(list) : /\ list[i].from = fromIdx
                          /\ list[i].to = toIdx
                          /\ promoteType # 0 => list[i].promote = promoteType}

\* The choice of _objectMove and _uciMove that takes a promotion without
\* being told one.
PickFirstWithSquares(list, found, promoteType) ==
    IF found = {} THEN ChoiceThrown("ChessBadMove")
    ELSE ChoicePicked(list[First(found)])

\* The choice of _objectMove and _uciMove among the moves found.
PickWithSquares(list, found, promoteType) ==
    IF found = {} THEN ChoiceThrown("ChessBadMove")
    ELSE IF list[First(found)].promote # 0 /\ promoteType = 0
    THEN ChoiceThrown("ChessNeedsPromotion")
    ELSE ChoicePicked(list[First(found)])

PickBySquares(list, fromIdx, toIdx, promoteType) ==
    PickWithSquares(list, WithSquares(list, fromIdx, toIdx, promoteType), promoteType)

\* A promotion letter is given as <<>> (none) or as the letter.
PromoteTypeOf(promotion) ==
    IF promotion = <<>> THEN 0 ELSE PROMOTE_MAP(ToUpperCase(promotion[1]))

\* UCI_MOVE_RE: how many of the characters '-' and ' ' follow the first square.
Separators(text) ==
    IF Len(text) < 4 THEN 0
    ELSE Cardinality({k \in 3..(Len(text) - 2) : \A j \in 3..k : text[j] \in {"-", " "}})

IsSquare(text, at) ==
    /\ Len(text) > at
    /\ InChars(FILES, text[at])
    /\ InChars(RANKS, text[at + 1])

UciMatches(text) ==
    /\ IsSquare(text, 1)
    /\ IsSquare(text, 3 + Separators(text))
    /\ \/ Len(text) = 4 + Separators(text)
       \/ /\ Len(text) = 5 + Separators(text)
          /\ ToUpperCase(text[Len(text)]) \in PromotionLetters

UciSquare(text, at) == <<text[at], text[at + 1]>>
UciPromote(text) ==
    IF Len(text) = 5 + Separators(text) THEN <<text[Len(text)]>> ELSE <<>>

\* What _objectMove, _uciMove and _sanMove choose, given the legal moves.
ObjectChoice(list, move) ==
    IF move.promotion # <<>> /\ PromoteTypeOf(move.promotion) = 0
    THEN ChoiceThrown("ChessBadMove")
    ELSE PickBySquares(list, coordFromAN(move.from), coordFromAN(move.to),
                       PromoteTypeOf(move.promotion))

UciChoice(list, from, dest, promote) ==
    IF promote # <<>> /\ PromoteTypeOf(promote) = 0
    THEN ChoiceThrown("ChessBadMove")
    ELSE PickBySquares(list, coordFromAN(from), coordFromAN(dest), PromoteTypeOf(promote))

SanChoice(found) ==
    IF found.error # "none" THEN ChoiceThrown(found.error) ELSE ChoicePicked(found.move)

\* doGameMove: a move is an object or a string, a string is a UCI move or SAN.
GameMoveChoice(list, move) ==
    IF move.kind = "object" THEN ObjectChoice(list, move)
    ELSE IF UciMatches(move.text)
    THEN UciChoice(list, UciSquare(move.text, 1),
                   UciSquare(move.text, 3 + Separators(move.text)), UciPromote(move.text))
    ELSE SanChoice(findMoveBySAN(list, move.text))

\* What a call of doGameMove leaves: the error it threw or "none", the board,
\* the results of the move and the move it picked. An error is thrown after
\* the moves were listed and before anything else is done.
MoveThrown(listed, error) ==
    [error |-> error, board |-> listed, results |-> NoResults, picked |-> NoMove]
MoveDone(done, picked) ==
    [error |-> "none", board |-> done.board, results |-> done.results, picked |-> picked]

MoveChosen(listed, chosen, turn) ==
    IF chosen.error # "none" THEN MoveThrown(listed, chosen.error)
    ELSE MoveDone(DoPicked(listed, chosen.picked, turn), chosen.picked)

GameMoveListed(listed, move, turn) ==
    MoveChosen(listed, GameMoveChoice(listAllValidMoves(listed, turn), move), turn)

doGameMoveGiven(B, move) ==
    GameMoveListed(AfterListAll(B, Current(B).turn), move, Current(B).turn)

(***************************************************************************)
(* The positions the games start from.                                     *)
(***************************************************************************)
\* The longest game played from the standard start, in plies, and from the
\* other positions.
MaxPlies == 4
MaxScenarioPlies == 2

\* File 0..7 is a..h, rank 0..7 is 1..8.
Sq(file, rank) == 16 * rank + file
Pc(type, color, moved, file, rank) == <<Sq(file, rank), encodePieceSpace(type, color, moved)>>

\* A position set up square by square, as the layout builders do.
LoadPosition(pieces, turn, castles, ep, clock, moveNum) ==
    LET b == SetEach(<<newLayer>>, pieces, 1)
        m == SetCurrent(b, [Current(b) EXCEPT !.turn = turn, !.castles = castles,
                                              !.ep = ep, !.clock = clock,
                                              !.moveNum = moveNum])
    IN putBoardHash(m, hashBoard(m))

NoRook == 8

\* Chess960 back rows: the white king and its king-side rook on the given
\* files, neither moved; the black king has moved.
Castle960(kingFile, rookFile) ==
    LoadPosition(<<Pc(PIECETYPE_KING, COLOR_WHITE, FALSE, kingFile, 0),
                   Pc(PIECETYPE_ROOK, COLOR_WHITE, FALSE, rookFile, 0),
                   Pc(PIECETYPE_KING, COLOR_BLACK, TRUE, 0, 7)>>,
                 COLOR_WHITE, buildCastleMap(NoRook, rookFile, NoRook, NoRook), NO_EP, 0, 10)

\* Both white castles at hand, a knight before the king, and a black rook that
\* can attack the king, the knight or the squares of either castle.
CastleUnderFire ==
    LoadPosition(<<Pc(PIECETYPE_KING, COLOR_WHITE, FALSE, 4, 0),
                   Pc(PIECETYPE_ROOK, COLOR_WHITE, FALSE, 0, 0),
                   Pc(PIECETYPE_ROOK, COLOR_WHITE, FALSE, 7, 0),
                   Pc(PIECETYPE_KNIGHT, COLOR_WHITE, TRUE, 4, 1),
                   Pc(PIECETYPE_KING, COLOR_BLACK, TRUE, 6, 6),
                   Pc(PIECETYPE_ROOK, COLOR_BLACK, TRUE, 5, 7)>>,
                 COLOR_BLACK, buildCastleMap(0, 7, NoRook, NoRook), NO_EP, 0, 20)

\* After c7-c5 the capture b5xc6 en passant would open the fifth rank between
\* the black rook and the white king; after e7-e5 the capture d5xe6 is free.
EnPassantPin ==
    LoadPosition(<<Pc(PIECETYPE_KING, COLOR_WHITE, TRUE, 0, 4),
                   Pc(PIECETYPE_PAWN, COLOR_WHITE, TRUE, 1, 4),
                   Pc(PIECETYPE_KING, COLOR_BLACK, TRUE, 7, 7),
                   Pc(PIECETYPE_ROOK, COLOR_BLACK, TRUE, 7, 4),
                   Pc(PIECETYPE_PAWN, COLOR_BLACK, FALSE, 2, 6)>>,
                 COLOR_BLACK, buildCastleMap(NoRook, NoRook, NoRook, NoRook), NO_EP, 0, 30)

EnPassantFree ==
    LoadPosition(<<Pc(PIECETYPE_KING, COLOR_WHITE, TRUE, 4, 0),
                   Pc(PIECETYPE_PAWN, COLOR_WHITE, TRUE, 3, 4),
                   Pc(PIECETYPE_KING, COLOR_BLACK, TRUE, 7, 7),
                   Pc(PIECETYPE_PAWN, COLOR_BLACK, FALSE, 4, 6),
                   Pc(PIECETYPE_PAWN, COLOR_BLACK, FALSE, 2, 6)>>,
                 COLOR_BLACK, buildCastleMap(NoRook, NoRook, NoRook, NoRook), NO_EP, 0, 30)

\* A white pawn that promotes by a push or by a capture, a black one by a push.
Promotion ==
    LoadPosition(<<Pc(PIECETYPE_KING, COLOR_WHITE, TRUE, 4, 0),
                   Pc(PIECETYPE_PAWN, COLOR_WHITE, TRUE, 0, 6),
                   Pc(PIECETYPE_KING, COLOR_BLACK, TRUE, 4, 7),
                   Pc(PIECETYPE_KNIGHT, COLOR_BLACK, FALSE, 1, 7),
                   Pc(PIECETYPE_PAWN, COLOR_BLACK, TRUE, 7, 1)>>,
                 COLOR_WHITE, buildCastleMap(NoRook, NoRook, NoRook, NoRook), NO_EP, 0, 40)

\* King and rook against the king in the corner, late on the clock: Ra8 mates,
\* Rg1 stalemates, Rg8 gives the rook away; with a pawn, a pawn move resets
\* the clock.
LateEnding(clock, withPawn) ==
    LoadPosition(<<Pc(PIECETYPE_KING, COLOR_WHITE, TRUE, 7, 5),
                   Pc(PIECETYPE_ROOK, COLOR_WHITE, TRUE, 0, 0),
                   Pc(PIECETYPE_KING, COLOR_BLACK, TRUE, 7, 7)>>
                    \o (IF withPawn THEN <<Pc(PIECETYPE_PAWN, COLOR_WHITE, FALSE, 1, 1)>>
                        ELSE <<>>),
                 COLOR_WHITE, buildCastleMap(NoRook, NoRook, NoRook, NoRook), NO_EP, clock, 60)

\* Three white knights that reach b3, from a1, c1 and a5, and two white pawns
\* that capture on d5.
Twins ==
    LoadPosition(<<Pc(PIECETYPE_KING, COLOR_WHITE, TRUE, 4, 0),
                   Pc(PIECETYPE_KNIGHT, COLOR_WHITE, TRUE, 0, 0),
                   Pc(PIECETYPE_KNIGHT, COLOR_WHITE, TRUE, 2, 0),
                   Pc(PIECETYPE_KNIGHT, COLOR_WHITE, TRUE, 0, 4),
                   Pc(PIECETYPE_PAWN, COLOR_WHITE, TRUE, 2, 3),
                   Pc(PIECETYPE_PAWN, COLOR_WHITE, TRUE, 4, 3),
                   Pc(PIECETYPE_KING, COLOR_BLACK, TRUE, 7, 7),
                   Pc(PIECETYPE_PAWN, COLOR_BLACK, TRUE, 3, 4)>>,
                 COLOR_WHITE, buildCastleMap(NoRook, NoRook, NoRook, NoRook), NO_EP, 0, 50)

\* Two white pawns on the seventh rank that both capture on b8.
PromotionTwins ==
    LoadPosition(<<Pc(PIECETYPE_KING, COLOR_WHITE, TRUE, 4, 0),
                   Pc(PIECETYPE_PAWN, COLOR_WHITE, TRUE, 0, 6),
                   Pc(PIECETYPE_PAWN, COLOR_WHITE, TRUE, 2, 6),
                   Pc(PIECETYPE_KING, COLOR_BLACK, TRUE, 4, 7),
                   Pc(PIECETYPE_KNIGHT, COLOR_BLACK, FALSE, 1, 7)>>,
                 COLOR_WHITE, buildCastleMap(NoRook, NoRook, NoRook, NoRook), NO_EP, 0, 40)

\* The white king takes the last piece but the kings.
LastPiece ==
    LoadPosition(<<Pc(PIECETYPE_KING, COLOR_WHITE, TRUE, 4, 0),
                   Pc(PIECETYPE_KING, COLOR_BLACK, TRUE, 7, 7),
                   Pc(PIECETYPE_ROOK, COLOR_BLACK, TRUE, 3, 1)>>,
                 COLOR_WHITE, buildCastleMap(NoRook, NoRook, NoRook, NoRook), NO_EP, 0, 70)

Scenarios ==
    { [board |-> buildStandardBoard, plies |-> MaxPlies],
      [board |-> LastPiece, plies |-> MaxScenarioPlies - 1],
      [board |-> PromotionTwins, plies |-> MaxScenarioPlies - 1],
      [board |-> Twins, plies |-> MaxScenarioPlies - 1],
      [board |-> Castle960(5, 7), plies |-> MaxScenarioPlies],
      [board |-> Castle960(6, 7), plies |-> MaxScenarioPlies],
      [board |-> Castle960(5, 6), plies |-> MaxScenarioPlies],
      [board |-> CastleUnderFire, plies |-> MaxScenarioPlies - 1],
      [board |-> EnPassantPin, plies |-> MaxScenarioPlies],
      [board |-> EnPassantFree, plies |-> MaxScenarioPlies],
      [board |-> Promotion, plies |-> MaxScenarioPlies],
      [board |-> LateEnding(98, FALSE), plies |-> MaxScenarioPlies],
      [board |-> LateEnding(99, FALSE), plies |-> MaxScenarioPlies],
      [board |-> LateEnding(99, TRUE), plies |-> MaxScenarioPlies] }


Init ==
    /\ \E s \in Scenarios :
          /\ layers = s.board
          /\ left = s.plies
    /\ moves = <<>>
    /\ gameWinner = NoWinner
    /\ results = NoResults
    /\ line = <<hashBoard(layers)>>
    /\ call = NoCall
    /\ thrown = "none"
    /\ held = NoList

\* From the standard start the players move their king-side knights only.
Opening == line[1] = hashBoard(buildStandardBoard)
Offered(move) ==
    Opening => (spaceGetType(move.what) = PIECETYPE_KNIGHT /\ move.from % 16 >= 5)

\* The record of the move, the winner and the results once the picked move is
\* done.
MovePicked(picked, done) ==
    /\ Offered(picked)
    /\ layers' = done.board
    /\ moves' = Append(moves, [num |-> Current(layers).moveNum,
                               side |-> SideName(Current(layers).turn),
                               move |-> picked])
    /\ gameWinner' = maybeRefreshWinner(done.board, gameWinner)
    /\ results' = <<done.results>>
    /\ line' = Append(line, hashBoard(done.board))
    /\ left' = left - 1
    /\ UNCHANGED <<call, thrown, held>>

MoveAmong(list) ==
    \E i \in 1..Len(list) : MovePicked(list[i], doGameMove(layers, list[i]))

\* ChessGame.move with an input that names one of the legal moves.
GameMove ==
    /\ ~isGameOver(layers)
    /\ left > 0
    /\ MoveAmong(listAllValidMoves(layers, Current(layers).turn))

Next == GameMove

Spec == Init /\ [][Next]_vars

(***************************************************************************)
(* The attack relation computed from the occupancy alone.                  *)
(***************************************************************************)
RookSteps == {16, 1, -16, -1}
BishopSteps == {17, -15, -17, 15}

SlidesTo(board, p, sq, steps) ==
    \E step \in steps : \E k \in 1..7 :
       /\ sq = p + k * step
       /\ \A j \in 1..(k - 1) : board[p + j * step] = SPACE_EMPTY

\* The piece on p attacks sq.
PieceAttacks(board, p, sq) ==
    LET type == spaceGetType(board[p])
        up == IF spaceGetColor(board[p]) = COLOR_WHITE THEN 16 ELSE -16
    IN IF type = PIECETYPE_PAWN THEN sq \in {p + up - 1, p + up + 1}
       ELSE IF type = PIECETYPE_KNIGHT THEN \E i \in 1..Len(KNIGHT) : sq = p + KNIGHT[i]
       ELSE IF type = PIECETYPE_KING THEN \E i \in 1..Len(DIRS) : sq = p + DIRS[i]
       ELSE IF type = PIECETYPE_ROOK THEN SlidesTo(board, p, sq, RookSteps)
       ELSE IF type = PIECETYPE_BISHOP THEN SlidesTo(board, p, sq, BishopSteps)
       ELSE IF type = PIECETYPE_QUEEN THEN SlidesTo(board, p, sq, RookSteps \cup BishopSteps)
       ELSE FALSE

Occupied(board) == {p \in Squares : board[p] # SPACE_EMPTY}

AttackersAmong(occupied, board, sq, color) ==
    {p \in occupied : spaceGetColor(board[p]) = color /\ PieceAttacks(board, p, sq)}

NaiveAttackers(board, sq, color) == AttackersAmong(Occupied(board), board, sq, color)

KingSquaresOf(board, color) ==
    {sq \in Squares : spaceGetType(board[sq]) = PIECETYPE_KING
                      /\ spaceGetColor(board[sq]) = color}

\* No king of the colour stands attacked.
KingsSafe(board, color) ==
    \A sq \in KingSquaresOf(board, color) : NaiveAttackers(board, sq, 8 - color) = {}

Colors == {COLOR_WHITE, COLOR_BLACK}

(***************************************************************************)
(* C1: in every reachable position, every move listAllValidMoves returns   *)
(* for a colour leaves, once applied, no king of that colour attacked.     *)
(***************************************************************************)
LegalMovesKeepKingSafe ==
    \A color \in Colors :
       LET list == listAllValidMoves(layers, color)
       IN \A i \in 1..Len(list) :
             KingsSafe(Current(performMove(layers, list[i])).board, color)

\* The side to move has moves, and a knight with somewhere to jump but no
\* legal move: it is pinned, or its king is in check.
PinnedKnightFiltered ==
    LET cur == Current(layers)
        list == listAllValidMoves(layers, cur.turn)
    IN /\ Len(list) > 0
       /\ \E p \in Squares :
             /\ cur.board[p] # SPACE_EMPTY
             /\ spaceGetType(cur.board[p]) = PIECETYPE_KNIGHT
             /\ spaceGetColor(cur.board[p]) = cur.turn
             /\ \E i \in 1..Len(KNIGHT) :
                   /\ OnBoard(p + KNIGHT[i])
                   /\ cur.board[p + KNIGHT[i]] = SPACE_EMPTY
             /\ \A i \in 1..Len(list) : list[i].from # p

(***************************************************************************)
(* C2: for every reachable position and every legal move m of the side to  *)
(* move, applying m and then reverting m gives back the board bytes, the   *)
(* piece list (as a set), the attack map, the castle rights, ep, clock,    *)
(* move number and turn.                                                   *)
(***************************************************************************)
Range(seq) == {seq[i] : i \in 1..Len(seq)}

SamePosition(a, b) ==
    /\ a.board = b.board
    /\ Range(a.pieceList) = Range(b.pieceList)
    /\ a.attacks = b.attacks
    /\ a.castles = b.castles
    /\ a.ep = b.ep
    /\ a.clock = b.clock
    /\ a.moveNum = b.moveNum
    /\ a.turn = b.turn

RoundTrip(m) == revertMove(performMove(layers, m), m)

ApplyRevertRestores ==
    LET list == listAllValidMoves(layers, Current(layers).turn)
    IN \A i \in 1..Len(list) :
          SamePosition(Current(RoundTrip(list[i])), Current(layers))

\* The same for the moves that are no castles.
ApplyRevertRestoresPlainMoves ==
    LET list == listAllValidMoves(layers, Current(layers).turn)
    IN \A i \in 1..Len(list) :
          list[i].castleRook = 0
             => SamePosition(Current(RoundTrip(list[i])), Current(layers))

\* The same for the castles whose king leaves its square for one the rook
\* does not come from or go to.
ApplyRevertRestoresDisjointCastles ==
    LET list == listAllValidMoves(layers, Current(layers).turn)
    IN \A i \in 1..Len(list) :
          (/\ list[i].castleRook # 0
           /\ list[i].from # list[i].to
           /\ list[i].from # list[i].castleRookTo
           /\ list[i].to # list[i].castleRookFrom)
             => SamePosition(Current(RoundTrip(list[i])), Current(layers))

(***************************************************************************)
(* What the properties of the game read off a state.                       *)
(***************************************************************************)
Moved == results # NoResults
LastMove == moves[Len(moves)].move
SideToMoveCanMove == Len(listAllValidMoves(layers, Current(layers).turn)) > 0
SideToMoveInCheck == ~KingsSafe(Current(layers).board, Current(layers).turn)
TimesSeen == Current(layers).seen[hashBoard(layers)]
\* How often the position the game stands in has occurred in the game.
Occurrences == Cardinality({i \in 1..Len(line) : line[i] = line[Len(line)]})

(***************************************************************************)
(* C4: the status after a move is CHECKMATE or DRAW_STALEMATE when the     *)
(* opponent cannot move (in check or not), else DRAW_FIFTYMOVES when       *)
(* clock >= 100, else DRAW_REPETITION when the position was seen >= 3      *)
(* times, else DRAW_NOMATERIAL when material is insufficient, else the     *)
(* prior status.                                                           *)
(***************************************************************************)
StatusInOrder ==
    IF ~SideToMoveCanMove
    THEN IF SideToMoveInCheck THEN GAMESTATUS_CHECKMATE ELSE GAMESTATUS_DRAW_STALEMATE
    ELSE IF Current(layers).clock >= 100 THEN GAMESTATUS_DRAW_FIFTYMOVES
    ELSE IF TimesSeen >= 3 THEN GAMESTATUS_DRAW_REPETITION
    ELSE IF boardLacksMaterial(layers) THEN GAMESTATUS_DRAW_NOMATERIAL
    ELSE LastMove.prior.status

RepetitionOnThirdOccurrence ==
    (Opening /\ Moved /\ SideToMoveCanMove /\ Current(layers).clock < 100)
       => (Current(layers).status = GAMESTATUS_DRAW_REPETITION <=> Occurrences >= 3)

(***************************************************************************)
(* C6: the status becomes DRAW_FIFTYMOVES on exactly the move after which  *)
(* the clock is at 100, unless that move mates or stalemates, never below  *)
(* 100; a pawn move or a capture sets the clock to 0, any other move adds  *)
(* one to it.                                                              *)
(***************************************************************************)
FiftyMovesAtHundred ==
    Moved =>
       /\ Current(layers).status = GAMESTATUS_DRAW_FIFTYMOVES
             <=> (Current(layers).clock >= 100 /\ SideToMoveCanMove)
       /\ Current(layers).clock
             = IF spaceGetType(LastMove.what) = PIECETYPE_PAWN \/ LastMove.capture # 0
               THEN 0 ELSE LastMove.prior.clock + 1

\* The draw is called on the hundredth ply.
FiftyMovesCalled ==
    /\ Moved
    /\ Current(layers).status = GAMESTATUS_DRAW_FIFTYMOVES
    /\ Current(layers).clock = 100
    /\ LastMove.prior.clock = 99

(***************************************************************************)
(* C7: no castle is generated when the king is in check, when a square of  *)
(* the king's path (origin and destination included) is attacked with the  *)
(* king and the rook lifted, or when the king is attacked after the castle.*)
(***************************************************************************)
MovesOfSideToMove == listAllValidMoves(layers, Current(layers).turn)

Lifted(board, move) ==
    [board EXCEPT ![move.from] = SPACE_EMPTY, ![move.castleRookFrom] = SPACE_EMPTY]

KingPath(move) == Min2(move.from, move.to)..Max2(move.from, move.to)

PathAttacked(board, move) ==
    \E sq \in KingPath(move) :
       NaiveAttackers(Lifted(board, move), sq, 8 - spaceGetColor(move.what)) # {}

CastlesAreSafe ==
    LET cur == Current(layers)
        list == MovesOfSideToMove
    IN \A i \in 1..Len(list) :
          list[i].castleRook # 0 =>
             /\ NaiveAttackers(cur.board, list[i].from, 8 - cur.turn) = {}
             /\ ~PathAttacked(cur.board, list[i])
             /\ KingsSafe(Current(performMove(layers, list[i])).board, cur.turn)

\* The king-side castle of the side to move has its right, its rook and its
\* squares free, but the king would pass an attacked square: it is not in
\* the list, while the castle to the other side is.
CastleRefusedOnAttackedPath ==
    LET cur == Current(layers)
        list == MovesOfSideToMove
    IN \E k \in KingSquaresOf(cur.board, cur.turn) :
          LET rank == (k \div 16) * 16
              file == castleMapGetFile(cur.castles, cur.turn, TRUE)
              castle == createCastle(cur.board[k], k, rank + 6, cur.board[rank + (file % 8)],
                                     rank + (file % 8), rank + 5, getPriorState(layers))
          IN /\ ~spaceHasMoved(cur.board[k])
             /\ file < 8
             /\ \A sq \in (k + 1)..(rank + file - 1) : cur.board[sq] = SPACE_EMPTY
             /\ NaiveAttackers(cur.board, k, 8 - cur.turn) = {}
             /\ PathAttacked(cur.board, castle)
             /\ \A i \in 1..Len(list) : list[i].castleRook # 0 => list[i].to # rank + 6
             /\ \E i \in 1..Len(list) : list[i].castleRook # 0

(***************************************************************************)
(* C8: applying a generated castle leaves the king on file g or c of its   *)
(* back rank and the rook on file f or d, both marked as moved, and adds   *)
(* or removes no other piece, also when in Chess960 the king or the rook   *)
(* stands on its own or on the other's destination or origin square.       *)
(***************************************************************************)
CastleSquares(move) == {move.from, move.to, move.castleRookFrom, move.castleRookTo}

CastleLandsOn(before, after, move) ==
    LET rank == (move.from \div 16) * 16
        kingSide == move.castleRookFrom > move.from
    IN /\ after[rank + (IF kingSide THEN 6 ELSE 2)] = spaceMarkMoved(move.what)
       /\ after[rank + (IF kingSide THEN 5 ELSE 3)] = spaceMarkMoved(move.castleRook)
       /\ \A sq \in CastleSquares(move) \ {rank + 2, rank + 3, rank + 5, rank + 6} :
             after[sq] = SPACE_EMPTY
       /\ \A sq \in Squares \ (CastleSquares(move)
                                 \cup {rank + 2, rank + 3, rank + 5, rank + 6}) :
             after[sq] = before[sq]
       /\ Cardinality(Occupied(after)) = Cardinality(Occupied(before))

CastleLandsOnItsSquares ==
    LET list == MovesOfSideToMove
    IN \A i \in 1..Len(list) :
          list[i].castleRook # 0 =>
             CastleLandsOn(Current(layers).board,
                           Current(performMove(layers, list[i])).board, list[i])

\* The same for the castles whose king does not land where its rook starts.
CastleLandsWhenKingMissesRook ==
    LET list == MovesOfSideToMove
    IN \A i \in 1..Len(list) :
          (list[i].castleRook # 0 /\ list[i].to # list[i].castleRookFrom) =>
             CastleLandsOn(Current(layers).board,
                           Current(performMove(layers, list[i])).board, list[i])

(***************************************************************************)
(* C9: an en-passant capture is generated only onto the ep target; it      *)
(* takes the enemy pawn beside the capturing pawn, not a piece on the      *)
(* square it lands on; and it is not generated when lifting both pawns     *)
(* leaves the capturing side's king attacked.                              *)
(***************************************************************************)
\* A pawn move to an empty square of another file.
IsEnPassant(board, move) ==
    /\ spaceGetType(move.what) = PIECETYPE_PAWN
    /\ move.to % 16 # move.from % 16
    /\ board[move.to] = SPACE_EMPTY

Beside(from, to) == 16 * (from \div 16) + (to % 16)

\* The pawns of the colour from which a forward diagonal leads to the square.
PawnsReaching(board, color, sq) ==
    {p \in Squares : /\ board[p] = encodePieceSpace(PIECETYPE_PAWN, color, TRUE)
                        \/ board[p] = encodePieceSpace(PIECETYPE_PAWN, color, FALSE)
                     /\ sq \in {p + (IF color = COLOR_WHITE THEN 16 ELSE -16) + PAWN_CAPS[i]
                                  : i \in 1..Len(PAWN_CAPS)}}

AfterEnPassant(board, p, ep) ==
    [board EXCEPT ![p] = SPACE_EMPTY, ![Beside(p, ep)] = SPACE_EMPTY, ![ep] = board[p]]

EnPassantOnlyOnTarget ==
    LET cur == Current(layers)
        list == MovesOfSideToMove
    IN /\ \A i \in 1..Len(list) :
             IsEnPassant(cur.board, list[i]) =>
                /\ list[i].to = cur.ep
                /\ list[i].captureCoord = Beside(list[i].from, list[i].to)
                /\ list[i].capture = cur.board[list[i].captureCoord]
                /\ list[i].capture \in {encodePieceSpace(PIECETYPE_PAWN, 8 - cur.turn, m)
                                          : m \in BOOLEAN}
                /\ Current(performMove(layers, list[i])).board
                      = AfterEnPassant(cur.board, list[i].from, list[i].to)
       /\ \A p \in PawnsReaching(cur.board, cur.turn, cur.ep) :
             ~KingsSafe(AfterEnPassant(cur.board, p, cur.ep), cur.turn)
                => \A i \in 1..Len(list) : ~(list[i].from = p /\ list[i].to = cur.ep)

\* A pawn stands ready to capture en passant, its king is not in check, and
\* the capture is not in the list: it would open the rank to the king.
EnPassantRefusedByPin ==
    LET cur == Current(layers)
        list == MovesOfSideToMove
    IN /\ OnBoard(cur.ep)
       /\ KingsSafe(cur.board, cur.turn)
       /\ \E p \in PawnsReaching(cur.board, cur.turn, cur.ep) :
             /\ ~KingsSafe(AfterEnPassant(cur.board, p, cur.ep), cur.turn)
             /\ \A i \in 1..Len(list) : ~(list[i].from = p /\ list[i].to = cur.ep)
             /\ \E i \in 1..Len(list) : list[i].from = p

(***************************************************************************)
(* C10: every legal pawn move onto the last rank is in the list exactly    *)
(* four times, the four alike but for promote = Queen, Rook, Knight,       *)
(* Bishop, in that order; no pawn move onto the last rank has promote = 0, *)
(* and no other move has promote # 0.                                      *)
(***************************************************************************)
OntoLastRank(move) ==
    /\ spaceGetType(move.what) = PIECETYPE_PAWN
    /\ move.to \div 16 = (IF spaceGetColor(move.what) = COLOR_WHITE THEN 7 ELSE 0)

Unpromoted(move) == [move EXCEPT !.promote = 0]

MaxBoardOps == 3
\* set edits boards of at most this many pieces
MaxSetPieces == 2
SetSquares == {Sq(0, 0), Sq(1, 0), Sq(3, 0), Sq(2, 2)}
SetSpaces ==
    {SPACE_EMPTY,
     encodePieceSpace(PIECETYPE_QUEEN, COLOR_WHITE, TRUE),
     encodePieceSpace(PIECETYPE_ROOK, COLOR_BLACK, TRUE),
     encodePieceSpace(PIECETYPE_KNIGHT, COLOR_BLACK, TRUE)}

BoardStarts ==
    << [board |-> <<newLayer>>, ops |-> MaxBoardOps],
       [board |-> CastleUnderFire, ops |-> MaxBoardOps - 1],
       [board |-> Castle960(5, 7), ops |-> MaxBoardOps - 1],
       [board |-> EnPassantFree, ops |-> MaxBoardOps - 1],
       [board |-> Promotion, ops |-> MaxBoardOps - 1] >>

InitBoard ==
    /\ \E s \in 1..Len(BoardStarts) :
          /\ layers = BoardStarts[s].board
          /\ left = BoardStarts[s].ops
    /\ moves = <<>>
    /\ gameWinner = NoWinner
    /\ results = NoResults
    /\ line = <<>>
    /\ call = NoCall
    /\ thrown = "none"
    /\ held = NoList

\* Board.set
SetSquare ==
    /\ left > 0
    /\ Len(Current(layers).pieceList) <= MaxSetPieces
    /\ \E idx \in SetSquares : \E space \in SetSpaces :
          /\ layers' = BoardSet(layers, idx, space)
          /\ line' = Append(line, "set")
    /\ left' = left - 1
    /\ UNCHANGED <<moves, gameWinner, results, call, thrown, held>>

\* performMove with a legal move of the side to move
ApplyMove ==
    /\ left > 0
    /\ LET turn == Current(layers).turn
           list == listAllValidMoves(layers, turn)
       IN \E i \in 1..Len(list) :
             /\ layers' = performMove(layers, list[i])
             /\ moves' = Append(moves, [num |-> Current(layers).moveNum,
                                        side |-> SideName(turn),
                                        move |-> list[i]])
    /\ line' = Append(line, "apply")
    /\ left' = left - 1
    /\ held' = [held EXCEPT !.own = TRUE]
    /\ UNCHANGED <<gameWinner, results, call, thrown>>

\* revertMove with the move applied last
RevertMove ==
    /\ left > 0
    /\ Len(moves) > 0
    /\ layers' = revertMove(layers, moves[Len(moves)].move)
    /\ moves' = SubSeq(moves, 1, Len(moves) - 1)
    /\ line' = Append(line, "revert")
    /\ left' = left - 1
    /\ held' = [held EXCEPT !.own = TRUE]
    /\ UNCHANGED <<gameWinner, results, call, thrown>>

\* Board.save
Save ==
    /\ left > 0
    /\ layers' = BoardSave(layers)
    /\ line' = Append(line, "save")
    /\ left' = left - 1
    /\ UNCHANGED <<moves, gameWinner, results, call, thrown, held>>

\* Board.restore
Restore ==
    /\ left > 0
    /\ layers' = BoardRestore(layers)
    /\ line' = Append(line, "restore")
    /\ left' = left - 1
    /\ UNCHANGED <<moves, gameWinner, results, call, thrown, held>>

\* Board.putBoardHash with the hash of the position
PutHash ==
    /\ left > 0
    /\ layers' = putBoardHash(layers, hashBoard(layers))
    /\ line' = Append(line, "put")
    /\ left' = left - 1
    /\ UNCHANGED <<moves, gameWinner, results, call, thrown, held>>

\* Board.removeBoardHash with the hash of the position
RemoveHash ==
    /\ left > 0
    /\ layers' = removeBoardHash(layers, hashBoard(layers))
    /\ line' = Append(line, "remove")
    /\ left' = left - 1
    /\ UNCHANGED <<moves, gameWinner, results, call, thrown, held>>

NextBoard == SetSquare \/ ApplyMove \/ RevertMove \/ Save \/ Restore \/ PutHash \/ RemoveHash

SpecBoard == InitBoard /\ [][NextBoard]_vars

(***************************************************************************)
(* C3: after any sequence of set, move application, move reversion, save   *)
(* and restore, the counter attacks[2*s + colour bit] of every on-board    *)
(* square s and colour equals the number of pieces of that colour that     *)
(* attack s under the current occupancy.                                   *)
(***************************************************************************)
AttackMapExact ==
    LET cur == Current(layers)
        occupied == Occupied(cur.board)
    IN \A sq \in Squares : \A color \in Colors :
          cur.attacks[2 * sq + ColorBit(color)]
             = Cardinality(AttackersAmong(occupied, cur.board, sq, color))

\* A move has been applied and reverted, and a slider stands with a piece
\* in one of its lines.
RevertedWithBlockedSlider ==
    LET cur == Current(layers)
    IN /\ Len(line) > 0
       /\ line[Len(line)] = "revert"
       /\ \E p \in Squares : \E d \in SliderDirs(spaceGetType(cur.board[p])) :
             /\ cur.board[p] # SPACE_EMPTY
             /\ Len(Ray[p][d]) > 0
             /\ Reach(cur.board, Ray[p][d]) < Len(Ray[p][d])

(***************************************************************************)
(* The game with all that can be called of it: moves given as objects, as  *)
(* UCI strings and in SAN, legal or not, undoMove, resignGame, drawGame    *)
(* and allMoves.                                                           *)
(***************************************************************************)
\* How many calls are made of a game.
MaxGameCalls == 2

GameStarts ==
    {Promotion, PromotionTwins, Castle960(5, 7), LateEnding(99, FALSE), LateEnding(98, TRUE)}

InitGame ==
    /\ layers \in GameStarts
    /\ left = MaxGameCalls
    /\ moves = <<>>
    /\ gameWinner = NoWinner
    /\ results = NoResults
    /\ line = <<hashBoard(layers)>>
    /\ call = NoCall
    /\ thrown = "none"
    /\ held = NoList

ObjectInput(from, to, promotion) ==
    [kind |-> "object", from |-> from, to |-> to, promotion |-> promotion, text |-> <<>>]
StringInput(text) ==
    [kind |-> "string", from |-> <<>>, to |-> <<>>, promotion |-> <<>>, text |-> text]

\* The ways the game is given it: as an object without a promotion piece,
\* and, a promotion to the knight, as an object, a UCI string and in SAN.
GivenAs(list, move) ==
    {ObjectInput(coordToAN(move.from), coordToAN(move.to), <<>>)}
    \cup (IF move.promote = PIECETYPE_KNIGHT
          THEN {ObjectInput(coordToAN(move.from), coordToAN(move.to), <<"n">>),
                StringInput(coordToAN(move.from) \o <<"-">> \o coordToAN(move.to) \o <<"n">>),
                StringInput(moveToSAN(list, move, NoResults))}
          ELSE {})

\* The inputs that name no move: a piece that is no promotion piece, a king
\* that goes to the square it stands on, a string that is no move, and 'Kg1',
\* which no king can play or which fits both a king move and a castle.
InputsOfNone(cur) ==
    {ObjectInput(coordToAN(cur.pieceList[1]), coordToAN(cur.pieceList[1]), p) :
        p \in {<<>>, <<"K">>}}
    \cup {StringInput(<<"Z">>), StringInput(<<"K", "g", "1">>)}

GivenInputs(list, cur) ==
    UNION {GivenAs(list, list[i]) : i \in 1..Len(list)} \cup InputsOfNone(cur)

\* ChessGame.move on a game that is over
MoveRefused ==
    /\ isGameOver(layers)
    /\ thrown' = "ChessGameOver"
    /\ UNCHANGED <<layers, moves, gameWinner, results, line, held>>

\* ChessGame.move that records the move whether doGameMove threw or not.
MoveGivenRecordsFailures(done) ==
    /\ ~isGameOver(layers)
    /\ thrown' = done.error
    /\ layers' = done.board
    /\ moves' = Append(moves, [num |-> Current(layers).moveNum,
                               side |-> SideName(Current(layers).turn),
                               move |-> done.picked])
    /\ gameWinner' = maybeRefreshWinner(done.board, gameWinner)
    /\ results' = <<done.results>>
    /\ line' = Append(line, hashBoard(done.board))
    /\ UNCHANGED held

\* ChessGame.move once doGameMove is done
MoveGiven(done) ==
    /\ ~isGameOver(layers)
    /\ thrown' = done.error
    /\ layers' = done.board
    /\ IF done.error = "none"
       THEN /\ moves' = Append(moves, [num |-> Current(layers).moveNum,
                                       side |-> SideName(Current(layers).turn),
                                       move |-> done.picked])
            /\ gameWinner' = maybeRefreshWinner(done.board, gameWinner)
            /\ results' = <<done.results>>
            /\ line' = Append(line, hashBoard(done.board))
       ELSE UNCHANGED <<moves, gameWinner, results, line>>
    /\ UNCHANGED held

MoveWith(input) ==
    /\ call' = [op |-> "move", input |-> input]
    /\ left' = left - 1
    /\ MoveRefused \/ MoveGiven(doGameMoveGiven(layers, input))

\* ChessGame.move
Move ==
    /\ left > 0
    /\ \E input \in GivenInputs(listAllValidMoves(layers, Current(layers).turn),
                                Current(layers)) :
          MoveWith(input)

\* ChessGame.undoMove
UndoMove ==
    /\ left > 0
    /\ call' = [op |-> "undoMove", input |-> NoInput]
    /\ thrown' = "none"
    /\ IF Len(moves) > 0
       THEN /\ layers' = revertMove(layers, moves[Len(moves)].move)
            /\ moves' = SubSeq(moves, 1, Len(moves) - 1)
            /\ line' = SubSeq(line, 1, Len(line) - 1)
            /\ gameWinner' = NoWinner
       ELSE UNCHANGED <<layers, moves, line, gameWinner>>
    /\ left' = left - 1
    /\ UNCHANGED <<results, held>>

OtherSide(player) == IF player = "white" THEN "black" ELSE "white"
WithStatus(B, status) == SetCurrent(B, [Current(B) EXCEPT !.status = status])

\* ChessGame.resignGame
ResignGame ==
    \E player \in {"white", "black"} :
       /\ left > 0
       /\ left' = left - 1
       /\ call' = [op |-> "resignGame", input |-> StringInput(<<player>>)]
       /\ IF isGameOver(layers)
          THEN /\ thrown' = "ChessGameOver"
               /\ UNCHANGED <<layers, gameWinner>>
          ELSE /\ thrown' = "none"
               /\ layers' = WithStatus(layers, GAMESTATUS_RESIGNED)
               /\ gameWinner' = OtherSide(player)
       /\ UNCHANGED <<moves, results, line, held>>

\* ChessGame.drawGame
DrawGame ==
    /\ left > 0
    /\ left' = left - 1
    /\ call' = [op |-> "drawGame", input |-> NoInput]
    /\ IF isGameOver(layers)
       THEN /\ thrown' = "ChessGameOver"
            /\ UNCHANGED layers
       ELSE /\ thrown' = "none"
            /\ layers' = WithStatus(layers, GAMESTATUS_DRAW)
    /\ UNCHANGED <<moves, gameWinner, results, line, held>>

pieceTypeSymbol(type) ==
    IF type = PIECETYPE_PAWN THEN <<"P">> ELSE _anPieceType(type)

\* The MoveDetails of allMoves.
MoveDetails(list) ==
    [i \in 1..Len(list) |->
        [from |-> coordToAN(list[i].from),
         to |-> coordToAN(list[i].to),
         promotion |-> IF list[i].promote # 0 THEN pieceTypeSymbol(list[i].promote)
                       ELSE <<>>]]

Returned(list) == [list |-> list, color |-> Current(layers).turn, own |-> TRUE]

\* ChessGame.allMoves without a coord
AllMoves ==
    /\ left > 0
    /\ left' = left - 1
    /\ call' = [op |-> "allMoves", input |-> NoInput]
    /\ thrown' = "none"
    /\ IF isGameOver(layers)
       THEN /\ held' = Returned(<<>>)
            /\ UNCHANGED layers
       ELSE /\ held' = Returned(MoveDetails(listAllValidMoves(layers, Current(layers).turn)))
            /\ layers' = AfterListAll(layers, Current(layers).turn)
    /\ UNCHANGED <<moves, gameWinner, results, line>>

NextGame == Move \/ UndoMove \/ ResignGame \/ DrawGame \/ AllMoves

SpecGame == InitGame /\ [][NextGame]_vars

(***************************************************************************)
(* C11: in every reachable position, for every move m of the legal-move    *)
(* list L (castles, en-passant captures, promotions and moves that need a  *)
(* file, a rank or the full square among them),                            *)
(* findMoveBySAN(L, moveToSAN(L, m)) returns m, with or without the check  *)
(* or mate suffix.                                                         *)
(***************************************************************************)
\* No results given, a check and a mate.
Givens ==
    {NoResults,
     <<[enemyInCheck |-> TRUE, enemyCanMove |-> TRUE]>>,
     <<[enemyInCheck |-> TRUE, enemyCanMove |-> FALSE]>>}

SanReturns(list, move) ==
    \A given \in Givens : findMoveBySAN(list, moveToSAN(list, move, given)) = Found(move)

AllReturned(list) == \A i \in 1..Len(list) : SanReturns(list, list[i])

SanRoundTrip == AllReturned(MovesOfSideToMove)

\* A king move to the square on which a castle of the list puts the king.
CastleTwin(list, move) ==
    /\ move.castleRook = 0
    /\ \E j \in 1..Len(list) : /\ list[j].castleRook # 0
                               /\ list[j].to = move.to
                               /\ list[j].from = move.from

\* The same of every move but the king moves that share their squares with a
\* castle.
AllButTwinsReturned(list) ==
    \A i \in 1..Len(list) : ~CastleTwin(list, list[i]) => SanReturns(list, list[i])

SanRoundTripButCastleTwins == AllButTwinsReturned(MovesOfSideToMove)

\* Moves are named with a file, with a rank and with the full square.
NamedInFull(list) ==
    \E i \in 1..Len(list) : /\ spaceGetType(list[i].what) = PIECETYPE_KNIGHT
                             /\ Len(moveToSAN(list, list[i], NoResults)) = 5

SanNamesFullSquare == NamedInFull(MovesOfSideToMove)

(***************************************************************************)
(* C12: findMoveBySAN returns a move only when exactly one legal move      *)
(* matches all features of the SAN (destination, piece type, departure     *)
(* file and rank if given, capture flag, promotion piece if given); it     *)
(* fails with BadMove when no move matches; it fails with NeedsPromotion   *)
(* only when all matching moves share origin and destination, differ in    *)
(* the promotion piece alone and no promotion piece was given; every other *)
(* multiple match fails with BadMove.                                      *)
(***************************************************************************)
\* What a SAN can say of a move of the list: its piece and destination, its
\* departure file and rank (a set that holds it) or none (the empty set), a
\* capture or none, a promotion piece or none.
FeaturesOf(move) ==
    [piece : {spaceGetType(move.what)},
     file : {{}, {move.from % 8}},
     rank : {{}, {move.from \div 16}},
     x : BOOLEAN,
     to : {move.to},
     promote : {0, PIECETYPE_QUEEN, PIECETYPE_KNIGHT}]

SanFeatures(list) == UNION {FeaturesOf(list[i]) : i \in 1..Len(list)}

\* The SAN that says it.
SanOf(f) ==
    _anPieceType(f.piece)
    \o (IF f.file = {} THEN <<>> ELSE <<FILES[(CHOOSE c \in f.file : TRUE) + 1]>>)
    \o (IF f.rank = {} THEN <<>> ELSE <<RANKS[(CHOOSE c \in f.rank : TRUE) + 1]>>)
    \o (IF f.x THEN <<"x">> ELSE <<>>)
    \o <<FILES[(f.to % 8) + 1], RANKS[(f.to \div 16) + 1]>>
    \o (IF f.promote = 0 THEN <<>> ELSE <<"=">> \o _anPieceType(f.promote))

\* The moves of the list that match all of it.
Matching(list, f) ==
    {i \in 1..Len(list) :
        /\ list[i].to = f.to
        /\ spaceGetType(list[i].what) = f.piece
        /\ \A c \in f.file : list[i].from % 8 = c
        /\ \A c \in f.rank : list[i].from \div 16 = c
        /\ f.x <=> list[i].capture # 0
        /\ f.promote # 0 => list[i].promote = f.promote}

\* The matching moves differ in the promotion piece alone.
PromotionAlone(list, matching) ==
    \A i, j \in matching : Unpromoted(list[i]) = Unpromoted(list[j])

SanOutcome(list, f) ==
    IF Matching(list, f) = {} THEN Thrown("ChessBadMove")
    ELSE IF Cardinality(Matching(list, f)) = 1 THEN Found(list[First(Matching(list, f))])
    ELSE IF PromotionAlone(list, Matching(list, f)) /\ f.promote = 0
    THEN Thrown("ChessNeedsPromotion")
    ELSE Thrown("ChessBadMove")

AllAsStated(list) ==
    \A f \in SanFeatures(list) : findMoveBySAN(list, SanOf(f)) = SanOutcome(list, f)

SanSelectsAsStated == AllAsStated(MovesOfSideToMove)

\* The same without telling the two errors of several matches apart.
OnlyMatch(list, matching, found) ==
    IF matching = {} THEN found = Thrown("ChessBadMove")
    ELSE IF Cardinality(matching) = 1 THEN found = Found(list[First(matching)])
    ELSE found.error # "none"

AllOnlyMatches(list) ==
    \A f \in SanFeatures(list) :
       OnlyMatch(list, Matching(list, f), findMoveBySAN(list, SanOf(f)))

SanSelectsTheOnlyMatch == AllOnlyMatches(MovesOfSideToMove)

(***************************************************************************)
(* C13: for a move given as {from, to[, promotion]} or as a UCI string: if *)
(* a legal move with that from and to is a promotion and no promotion      *)
(* piece is given, the call fails with NeedsPromotion and applies nothing; *)
(* if a promotion piece is given, the applied move is the legal move with  *)
(* exactly that from, to and promotion piece; if no legal move has that    *)
(* from and to (and promotion), the call fails with BadMove.               *)
(***************************************************************************)
PromotionLetter(type) == IF type = 0 THEN <<>> ELSE _anPieceType(type)
LowerCase(letter) ==
    IF letter = <<"Q">> THEN <<"q">> ELSE IF letter = <<"N">> THEN <<"n">> ELSE letter

\* An input and what it means: the squares and the promotion piece or 0.
Meaning(input, from, to, promote) ==
    [input |-> input, from |-> from, to |-> to, promote |-> promote]

\* The squares of a legal move, or the square it leaves twice, given with no
\* promotion piece, with the queen and with the knight, as an object and as
\* a UCI string.
MeantBy(move) ==
    UNION {{Meaning(ObjectInput(coordToAN(move.from), coordToAN(to), PromotionLetter(p)),
                    move.from, to, p),
            Meaning(ObjectInput(coordToAN(move.from), coordToAN(to),
                                LowerCase(PromotionLetter(p))),
                    move.from, to, p),
            Meaning(StringInput(coordToAN(move.from) \o coordToAN(to)
                                   \o LowerCase(PromotionLetter(p))),
                    move.from, to, p),
            Meaning(StringInput(coordToAN(move.from) \o <<"-", " ">> \o coordToAN(to)
                                   \o PromotionLetter(p)),
                    move.from, to, p)} :
              to \in {move.to, move.from}, p \in {0, PIECETYPE_QUEEN, PIECETYPE_KNIGHT}}

Meant(list) == UNION {MeantBy(list[i]) : i \in 1..Len(list)}

\* The call threw the error and left the position and its hash counts alone.
ThrownWithNothingApplied(B, done, error) ==
    /\ done.error = error
    /\ Len(done.board) = Len(B)
    /\ SamePosition(Current(done.board), Current(B))
    /\ Current(done.board).seen = Current(B).seen

\* The call applied the move: the move is the one it picked and its piece,
\* promoted if it promotes, stands on its square.
AppliedIs(done, move) ==
    /\ done.error = "none"
    /\ done.picked = move
    /\ Current(done.board).board[move.to]
          = IF move.promote # 0
            THEN encodePieceSpace(move.promote, spaceGetColor(move.what), TRUE)
            ELSE spaceMarkMoved(move.what)

AsStatedOf(B, list, g, with) ==
    IF g.promote = 0 /\ \E i \in with : list[i].promote # 0
    THEN ThrownWithNothingApplied(B, doGameMoveGiven(B, g.input), "ChessNeedsPromotion")
    ELSE IF g.promote # 0 /\ \E i \in with : list[i].promote = g.promote
    THEN \E i \in with : /\ list[i].promote = g.promote
                         /\ AppliedIs(doGameMoveGiven(B, g.input), list[i])
    ELSE IF \A i \in with : g.promote # 0 /\ list[i].promote # g.promote
    THEN ThrownWithNothingApplied(B, doGameMoveGiven(B, g.input), "ChessBadMove")
    ELSE TRUE

AllGivenAsStated(B, list) ==
    \A g \in Meant(list) :
       AsStatedOf(B, list, g, {i \in 1..Len(list) : list[i].from = g.from /\ list[i].to = g.to})

GivenMovesAsStated ==
    ~isGameOver(layers) => AllGivenAsStated(layers, MovesOfSideToMove)

\* A pawn move onto the last rank was given as an object without a promotion
\* piece and refused.
PromotionAskedFor ==
    /\ call.op = "move"
    /\ call.input.kind = "object"
    /\ call.input.promotion = <<>>
    /\ thrown = "ChessNeedsPromotion"
    /\ moves = <<>>

(***************************************************************************)
(* C14: once the status is not ACTIVE (checkmate, resignation or a draw),  *)
(* move, resignGame and drawGame each fail with ChessGameOver and change   *)
(* neither position, status, winner nor history, and allMoves returns an   *)
(* empty list; the status stays other than ACTIVE until undoMove is        *)
(* called.                                                                 *)
(***************************************************************************)
Refused ==
    /\ thrown' = "ChessGameOver"
    /\ layers' = layers
    /\ gameWinner' = gameWinner
    /\ moves' = moves

NotActive(B) == Current(B).status # GAMESTATUS_ACTIVE

OverStep ==
    /\ call'.op \in {"move", "resignGame", "drawGame"} => Refused
    /\ call'.op = "allMoves" => (held'.list = <<>> /\ thrown' = "none" /\ layers' = layers)
    /\ call'.op # "undoMove" => NotActive(layers')

OverUntilUndone == [][NotActive(layers) => OverStep]_vars

\* A move, a resignation or a draw was called of a game that was over, and
\* refused.
CalledWhenOver ==
    /\ NotActive(layers)
    /\ call.op \in {"move", "resignGame", "drawGame"}
    /\ thrown = "ChessGameOver"

(***************************************************************************)
(* C15: whenever ChessGame.move produces the status CHECKMATE the winner   *)
(* reported is the side that made the move, and whenever it produces a     *)
(* draw status (stalemate, repetition, fifty moves, insufficient material) *)
(* the winner reported is 'draw'.                                          *)
(***************************************************************************)
DrawnByPlay ==
    {GAMESTATUS_DRAW_STALEMATE, GAMESTATUS_DRAW_REPETITION, GAMESTATUS_DRAW_FIFTYMOVES,
     GAMESTATUS_DRAW_NOMATERIAL}

WinnerOfLastMove ==
    Moved =>
       /\ Current(layers).status = GAMESTATUS_CHECKMATE => gameWinner = moves[Len(moves)].side
       /\ Current(layers).status \in DrawnByPlay => gameWinner = "draw"

\* White has mated.
WhiteWonByMate ==
    /\ Moved
    /\ Current(layers).status = GAMESTATUS_CHECKMATE
    /\ moves[Len(moves)].side = "white"
    /\ gameWinner = "white"

(***************************************************************************)
(* C16: for any position and legal move m, after save(); apply(m);         *)
(* revert(m); restore() the seen map of every layer on the stack holds the *)
(* hash counts it held before: none is added, lost or made a non-number.   *)
(***************************************************************************)
SeenOf(B) == [i \in 1..Len(B) |-> B[i].seen]

SavedTrial(B, move) == BoardRestore(revertMove(performMove(BoardSave(B), move), move))

SeenKeptByTrials(B, list) ==
    \A i \in 1..Len(list) : SeenOf(SavedTrial(B, list[i])) = SeenOf(B)

SeenKeptBySavedTrial ==
    SeenKeptByTrials(layers, listAllValidMoves(layers, Current(layers).turn))

\* A move has been applied and reverted, so that the trial of that move
\* finds its hash in the seen map of the layer below the saved one.
TrialOfSeenPosition ==
    /\ Len(line) > 0
    /\ line[Len(line)] = "revert"
    /\ DOMAIN Current(layers).seen # {}
    /\ Len(listAllValidMoves(layers, Current(layers).turn)) > 0

(***************************************************************************)
(* The move lists in the hands of a caller: listAllValidMoves is called,   *)
(* the list it returned is changed by the caller, moves are applied and    *)
(* reverted. A list is held with the colour it was asked for and with      *)
(* whether it is an array of its own or the array the move cache holds;    *)
(* performMove and revertMove empty the cache, which leaves a held array   *)
(* to the caller alone.                                                    *)
(***************************************************************************)
MaxListCalls == 3

ListStarts == {LastPiece, Promotion}

InitLists ==
    /\ layers \in ListStarts
    /\ left = MaxListCalls
    /\ moves = <<>>
    /\ gameWinner = NoWinner
    /\ results = NoResults
    /\ line = <<>>
    /\ call = NoCall
    /\ thrown = "none"
    /\ held = NoList

\* listAllValidMoves: a cached list is returned as a slice, a list made now
\* is put into the cache and returned itself.
ListAll ==
    /\ left > 0
    /\ \E color \in {COLOR_WHITE, COLOR_BLACK} :
          /\ held' = [list |-> listAllValidMoves(layers, color),
                      color |-> color,
                      own |-> Current(layers).moveCache[color] # NoCache]
          /\ layers' = AfterListAll(layers, color)
    /\ line' = Append(line, "list")
    /\ left' = left - 1
    /\ UNCHANGED <<moves, gameWinner, results, call, thrown>>

WithCache(B, color, list) ==
    SetCurrent(B, [Current(B) EXCEPT !.moveCache[color] = <<list>>])

\* The caller pops the last move off the list it holds.
MutateHeld ==
    /\ left > 0
    /\ Len(held.list) > 0
    /\ held' = [held EXCEPT !.list = SubSeq(@, 1, Len(@) - 1)]
    /\ layers' = IF held.own THEN layers
                 ELSE WithCache(layers, held.color,
                                SubSeq(held.list, 1, Len(held.list) - 1))
    /\ line' = Append(line, "mutate")
    /\ left' = left - 1
    /\ UNCHANGED <<moves, gameWinner, results, call, thrown>>

NextLists == ListAll \/ MutateHeld \/ ApplyMove \/ RevertMove

SpecLists == InitLists /\ [][NextLists]_vars

(***************************************************************************)
(* C17: every list listAllValidMoves returns, on the first call for a      *)
(* position and on later cached calls, is a copy distinct from the list in *)
(* the move cache: changing a returned list never changes what a later     *)
(* listAllValidMoves call returns for the same unchanged position.         *)
(***************************************************************************)
ListsKept ==
    \A c \in Colors : listAllValidMoves(layers', c) = listAllValidMoves(layers, c)

MutationLeavesLists == [][line' = Append(line, "mutate") => ListsKept]_vars

\* The same of the lists that later, cached calls returned.
MutationOfSliceLeavesLists ==
    [][(line' = Append(line, "mutate") /\ held.own) => ListsKept]_vars

\* The caller has changed a list that a cached call returned.
SliceMutated ==
    /\ Len(line) > 1
    /\ line[Len(line)] = "mutate"
    /\ line[Len(line) - 1] = "list"
    /\ held.own
    /\ Current(layers).moveCache[held.color] # NoCache

(***************************************************************************)
(* C18: whenever listAllValidMoves(b, c) is answered from the move cache,  *)
(* the cached list equals what a fresh generation returns for colour c in  *)
(* the current position, the same moves with the same prior snapshots of   *)
(* clock, move number, ep, status and castle rights, after any             *)
(* interleaving of move applications, reversions, save and restore and     *)
(* the status updates of the game facade.                                  *)
(***************************************************************************)
CachedAsMade(B, c) ==
    Current(B).moveCache[c] # NoCache => Current(B).moveCache[c][1] = GenerateAll(B, c)

CacheIsFresh == \A c \in Colors : CachedAsMade(layers, c)

\* The cache of a game that is not over.
CacheIsFreshWhileActive ==
    Current(layers).status = GAMESTATUS_ACTIVE => CacheIsFresh

\* The cached list with the status of now in the prior snapshot of each move.
WithPriorStatus(list, status) ==
    [i \in 1..Len(list) |-> [list[i] EXCEPT !.prior.status = status]]

CachedButStatus(B, c) ==
    Current(B).moveCache[c] # NoCache
       => WithPriorStatus(Current(B).moveCache[c][1], Current(B).status) = GenerateAll(B, c)

\* The cache differs from a fresh generation in the prior status at most.
CacheIsFreshButStatus == \A c \in Colors : CachedButStatus(layers, c)

\* A cached list is there to answer from while the game goes on.
CacheAnswersWhileActive ==
    /\ Current(layers).status = GAMESTATUS_ACTIVE
    /\ Len(moves) > 0
    /\ Current(layers).moveCache[Current(layers).turn] # NoCache
    /\ Len(Current(layers).moveCache[Current(layers).turn][1]) > 0

(***************************************************************************)
(* C19: after any sequence of set() calls, move applications, reversions,  *)
(* save() and restore(), the piece list of the current layer contains      *)
(* every occupied square exactly once and no empty square.                 *)
(***************************************************************************)
PieceListExact ==
    LET cur == Current(layers)
    IN /\ \A i, j \in 1..Len(cur.pieceList) : i # j => cur.pieceList[i] # cur.pieceList[j]
       /\ Range(cur.pieceList) = {sq \in Squares : cur.board[sq] # SPACE_EMPTY}

\* A capture has been applied: a square that was not the last of the list
\* or was has left it, and pieces remain.
CaptureApplied ==
    /\ Len(line) > 0
    /\ line[Len(line)] = "apply"
    /\ moves[Len(moves)].move.capture # 0
    /\ Len(Current(layers).pieceList) > 1

(***************************************************************************)
(* C20: after save(), any sequence of set() calls, move applications and   *)
(* reversions, hash put and remove calls and balanced nested save and      *)
(* restore pairs, the restore() matching that save() leaves board, attack  *)
(* map, piece list, clock, move number, ep, status, turn, castle rights    *)
(* and seen counts as they were when save() was called; restore() at layer *)
(* index 0 changes nothing. Step by step: no call changes those fields of  *)
(* a layer below the current one, save leaves them in the layer it saves,  *)
(* and restore takes off the current layer and nothing else.               *)
(***************************************************************************)
LayerFields(layer) ==
    <<layer.board, layer.attacks, layer.pieceList, layer.clock, layer.moveNum, layer.ep,
      layer.status, layer.turn, layer.castles, layer.seen>>

FieldsKept(upTo) ==
    \A i \in 1..upTo : LayerFields(layers'[i]) = LayerFields(layers[i])

SavedLayersStep ==
    /\ Len(layers') = Len(layers) => FieldsKept(Len(layers) - 1)
    /\ Len(layers') > Len(layers) => Len(layers') = Len(layers) + 1 /\ FieldsKept(Len(layers))
    /\ Len(layers') < Len(layers) => Len(layers') = Len(layers) - 1 /\ FieldsKept(Len(layers'))
    /\ (line' = Append(line, "restore") /\ Len(layers) = 1)
          => Len(layers') = 1 /\ FieldsKept(1)

RestoreGivesBackSaved == [][SavedLayersStep]_vars

\* A layer was saved, then set or moved on, then restored.
RestoredAfterWork ==
    /\ Len(line) > 2
    /\ line[Len(line)] = "restore"
    /\ line[Len(line) - 1] \in {"set", "apply", "put"}
    /\ line[Len(line) - 2] = "save"

\* restore was called with a single layer.
RestoredAtBottom ==
    /\ Len(line) > 1
    /\ line[Len(line)] = "restore"
    /\ line[Len(line) - 1] = "set"
    /\ Len(layers) = 1

(***************************************************************************)
(* The hash counts of the board driven directly: save, restore,            *)
(* putBoardHash and removeBoardHash with one of two hashes, in any order.  *)
(* The line keeps the calls made.                                          *)
(***************************************************************************)
MaxHashCalls == 5

Hashes == {"h1", "h2"}

Called(op, hash) == [op |-> op, hash |-> hash]

InitHash ==
    /\ layers = <<newLayer>>
    /\ left = MaxHashCalls
    /\ moves = <<>>
    /\ gameWinner = NoWinner
    /\ results = NoResults
    /\ line = <<>>
    /\ call = NoCall
    /\ thrown = "none"
    /\ held = NoList

\* Board.save
HashSave ==
    /\ left > 0
    /\ layers' = BoardSave(layers)
    /\ line' = Append(line, Called("save", ""))
    /\ left' = left - 1
    /\ UNCHANGED <<moves, gameWinner, results, call, thrown, held>>

\* Board.restore
HashRestore ==
    /\ left > 0
    /\ layers' = BoardRestore(layers)
    /\ line' = Append(line, Called("restore", ""))
    /\ left' = left - 1
    /\ UNCHANGED <<moves, gameWinner, results, call, thrown, held>>

\* Board.putBoardHash
PutOf ==
    /\ left > 0
    /\ \E hash \in Hashes :
          /\ layers' = putBoardHash(layers, hash)
          /\ line' = Append(line, Called("put", hash))
    /\ left' = left - 1
    /\ UNCHANGED <<moves, gameWinner, results, call, thrown, held>>

\* Board.removeBoardHash
RemoveOf ==
    /\ left > 0
    /\ \E hash \in Hashes :
          /\ layers' = removeBoardHash(layers, hash)
          /\ line' = Append(line, Called("remove", hash))
    /\ left' = left - 1
    /\ UNCHANGED <<moves, gameWinner, results, call, thrown, held>>

NextHash == HashSave \/ HashRestore \/ PutOf \/ RemoveOf

SpecHash == InitHash /\ [][NextHash]_vars

(***************************************************************************)
(* C21: for any sequence of save, restore and putBoardHash calls, with no  *)
(* removeBoardHash, putBoardHash(h) returns the number of putBoardHash(h)  *)
(* calls, this one among them, that were made on layers still on the       *)
(* stack, and stores that number in the current layer only.                *)
(***************************************************************************)
\* The calls of putBoardHash(hash) made on each layer of the stack, from the
\* calls made: save opens a layer, restore drops the last one but the first.
RECURSIVE PutsByLayer(_, _, _, _)
PutsByLayer(calls, hash, i, puts) ==
    IF i > Len(calls) THEN puts
    ELSE IF calls[i].op = "save" THEN PutsByLayer(calls, hash, i + 1, Append(puts, 0))
    ELSE IF calls[i].op = "restore"
    THEN PutsByLayer(calls, hash, i + 1,
                     IF Len(puts) > 1 THEN SubSeq(puts, 1, Len(puts) - 1) ELSE puts)
    ELSE IF calls[i].op = "put" /\ calls[i].hash = hash
    THEN PutsByLayer(calls, hash, i + 1, [puts EXCEPT ![Len(puts)] = @ + 1])
    ELSE PutsByLayer(calls, hash, i + 1, puts)

RECURSIVE SumOf(_, _)
SumOf(seq, i) == IF i > Len(seq) THEN 0 ELSE seq[i] + SumOf(seq, i + 1)

PutsOnStack(calls, hash) == SumOf(PutsByLayer(calls, hash, 1, <<0>>), 1)

NoRemoveIn(calls) == \A i \in 1..Len(calls) : calls[i].op # "remove"

PutStep(hash) == line' = Append(line, Called("put", hash))

PutCountsStep ==
    \A hash \in Hashes :
       (PutStep(hash) /\ NoRemoveIn(line))
          => /\ putBoardHashCount(layers, hash) = PutsOnStack(line', hash)
             /\ Len(layers') = Len(layers)
             /\ Current(layers').seen[hash] = PutsOnStack(line', hash)
             /\ \A i \in 1..(Len(layers) - 1) : layers'[i] = layers[i]
             /\ \A other \in DOMAIN Current(layers).seen \ {hash} :
                   Current(layers').seen[other] = Current(layers).seen[other]

PutCountsCallsOnStack == [][PutCountsStep]_vars

\* The hash was put on the first layer and on a saved layer that was then
\* restored, and is put on the first layer again: the count is 2.
PutAfterRestore ==
    /\ line = <<Called("put", "h1"), Called("save", ""), Called("put", "h1"),
                Called("restore", ""), Called("put", "h1")>>
    /\ Len(layers) = 1
    /\ Current(layers).seen["h1"] = 2

(***************************************************************************)
(* C22: removeBoardHash(h) searches from the current layer downwards for   *)
(* the nearest layer whose seen map contains h and decrements that         *)
(* occurrence by one, so that a following putBoardHash(h) returns the      *)
(* value it returned when the removed occurrence was added; when no layer  *)
(* contains h nothing changes. This holds also when the nearest layer      *)
(* containing h is below the current layer.                                *)
(***************************************************************************)
RemoveStep(hash) == line' = Append(line, Called("remove", hash))

\* The count of the nearest occurrence, when it is a count of occurrences.
NearestCount(B, hash) == B[NearestSeeing(B, hash)].seen[hash]
Occurs(B, hash) ==
    /\ LayersSeeing(B, hash) # {}
    /\ NearestCount(B, hash) # NaN
    /\ NearestCount(B, hash) >= 1

RemoveUndoesStep ==
    \A hash \in Hashes :
       RemoveStep(hash)
          => /\ LayersSeeing(layers, hash) = {} => layers' = layers
             /\ Occurs(layers, hash)
                   => putBoardHashCount(layers', hash) = NearestCount(layers, hash)

RemoveUndoesPut == [][RemoveUndoesStep]_vars

\* The same when the nearest layer containing h is the current one.
RemoveInCurrentStep ==
    \A hash \in Hashes :
       RemoveStep(hash)
          => /\ LayersSeeing(layers, hash) = {} => layers' = layers
             /\ (Occurs(layers, hash) /\ hash \in DOMAIN Current(layers).seen)
                   => putBoardHashCount(layers', hash) = NearestCount(layers, hash)

RemoveInCurrentUndoesPut == [][RemoveInCurrentStep]_vars

\* The hash was put, the layer saved and the hash removed on the saved layer:
\* the saved layer holds a non-number for it.
RemovedBelowCurrent ==
    /\ Len(line) > 2
    /\ line[Len(line)].op = "remove"
    /\ Len(layers) > 1
    /\ line[Len(line)].hash \in DOMAIN Current(layers).seen
    /\ Current(layers).seen[line[Len(line)].hash] = NaN

(***************************************************************************)
(* The castle map driven directly: a map built for rooks on the a, b, g    *)
(* and h files or for no rook, then castleMapKingMoved and                 *)
(* castleMapRookMoved in any order. The map is kept in the castles of the  *)
(* layer, the calls made in the line.                                      *)
(***************************************************************************)
MaxMapCalls == 2

QRookFiles == {0, 1, NoRook}
KRookFiles == {6, 7, NoRook}
\* The squares a rook is taken to have left or been taken on.
MapSquares ==
    {Sq(f, r) : f \in {0, 1, 4, 6, 7}, r \in {0, 7}} \cup {Sq(f, r) : f \in {0, 7}, r \in {3, 4}}

WithCastles(map) == <<[newLayer EXCEPT !.castles = map]>>
MapCall(op, arg) == [op |-> op, arg |-> arg]

InitMap ==
    /\ \E wq \in QRookFiles : \E wk \in KRookFiles :
          \E bq \in QRookFiles : \E bk \in KRookFiles :
             /\ layers = WithCastles(buildCastleMap(wq, wk, bq, bk))
             /\ line = <<MapCall("buildCastleMap", buildCastleMap(wq, wk, bq, bk))>>
    /\ left = MaxMapCalls
    /\ moves = <<>>
    /\ gameWinner = NoWinner
    /\ results = NoResults
    /\ call = NoCall
    /\ thrown = "none"
    /\ held = NoList

KingMoved ==
    /\ left > 0
    /\ \E color \in {COLOR_WHITE, COLOR_BLACK} :
          /\ layers' = WithCastles(castleMapKingMoved(Current(layers).castles, color))
          /\ line' = Append(line, MapCall("castleMapKingMoved", color))
    /\ left' = left - 1
    /\ UNCHANGED <<moves, gameWinner, results, call, thrown, held>>

RookMoved ==
    /\ left > 0
    /\ \E coord \in MapSquares :
          /\ layers' = WithCastles(castleMapRookMoved(Current(layers).castles, coord))
          /\ line' = Append(line, MapCall("castleMapRookMoved", coord))
    /\ left' = left - 1
    /\ UNCHANGED <<moves, gameWinner, results, call, thrown, held>>

NextMap == KingMoved \/ RookMoved

SpecMap == InitMap /\ [][NextMap]_vars

(***************************************************************************)
(* C23: castleMapKingMoved(map, colour) marks both nibbles of that colour  *)
(* ineligible (bit 0x8 set) and leaves the two nibbles of the other colour *)
(* unchanged; castleMapRookMoved(map, sq) marks ineligible exactly the one *)
(* nibble, of the two of the colour whose board half contains sq, whose    *)
(* file equals the file of sq, and returns the map unchanged when neither  *)
(* matches; neither makes an ineligible nibble eligible again.             *)
(***************************************************************************)
Bases == {0, 4, 8, 12}
BasesOf(color) == IF color = COLOR_WHITE THEN {0, 4} ELSE {8, 12}
Ineligible(map, base) == (Nibble(map, base) \div 8) % 2 = 1
HalfOf(coord) == IF coord \div 16 < 4 THEN COLOR_WHITE ELSE COLOR_BLACK
MatchingBases(map, coord) == {b \in BasesOf(HalfOf(coord)) : Nibble(map, b) = coord % 8}

KingMovedAsStated(map, after, color) ==
    /\ \A b \in BasesOf(color) : Ineligible(after, b)
    /\ \A b \in Bases \ BasesOf(color) : Nibble(after, b) = Nibble(map, b)

RookMovedAsStated(map, after, coord) ==
    /\ MatchingBases(map, coord) = {} => after = map
    /\ \A b \in MatchingBases(map, coord) : Ineligible(after, b)
    /\ \A b \in Bases \ MatchingBases(map, coord) : Nibble(after, b) = Nibble(map, b)
    /\ Cardinality(MatchingBases(map, coord)) <= 1

CastleMapStep ==
    LET map == Current(layers).castles
        after == Current(layers').castles
        last == line'[Len(line')]
    IN /\ after \in 0..65535
       /\ \A b \in Bases : Ineligible(map, b) => Ineligible(after, b)
       /\ last.op = "castleMapKingMoved" => KingMovedAsStated(map, after, last.arg)
       /\ last.op = "castleMapRookMoved" => RookMovedAsStated(map, after, last.arg)

CastleMapMarksAsStated == [][CastleMapStep]_vars

\* The rook of white's king side has left its file on the first rank: that
\* nibble, eligible in the map as built, is marked, and white's queen side is
\* eligible still.
OneWingMarked ==
    /\ Len(line) = 2
    /\ line[2].op = "castleMapRookMoved"
    /\ HalfOf(line[2].arg) = COLOR_WHITE
    /\ Nibble(line[1].arg, 0) = line[2].arg % 8
    /\ Ineligible(Current(layers).castles, 0)
    /\ ~Ineligible(Current(layers).castles, 4)

(***************************************************************************)
(* Games in which king and rooks walk: both white castles at hand, three   *)
(* plies, so that the king or a rook leaves its square and returns; and a  *)
(* board set up with a king that has moved while the map still holds both  *)
(* files; and the same position with a knight on b1.                       *)
(***************************************************************************)
MaxWalkPlies == 3

BothWings(kingMoved) ==
    LoadPosition(<<Pc(PIECETYPE_KING, COLOR_WHITE, kingMoved, 4, 0),
                   Pc(PIECETYPE_ROOK, COLOR_WHITE, FALSE, 0, 0),
                   Pc(PIECETYPE_ROOK, COLOR_WHITE, FALSE, 7, 0),
                   Pc(PIECETYPE_KING, COLOR_BLACK, TRUE, 6, 7)>>,
                 COLOR_WHITE, buildCastleMap(0, 7, NoRook, NoRook), NO_EP, 0, 10)

\* The same with a white knight on b1, in the way of the queen's rook only.
WingsWithKnight ==
    LoadPosition(<<Pc(PIECETYPE_KING, COLOR_WHITE, FALSE, 4, 0),
                   Pc(PIECETYPE_ROOK, COLOR_WHITE, FALSE, 0, 0),
                   Pc(PIECETYPE_ROOK, COLOR_WHITE, FALSE, 7, 0),
                   Pc(PIECETYPE_KNIGHT, COLOR_WHITE, FALSE, 1, 0),
                   Pc(PIECETYPE_KING, COLOR_BLACK, TRUE, 6, 7)>>,
                 COLOR_WHITE, buildCastleMap(0, 7, NoRook, NoRook), NO_EP, 0, 10)

InitWalk ==
    /\ \/ layers = BothWings(FALSE) /\ left = MaxWalkPlies
       \/ layers = BothWings(TRUE) /\ left = MaxWalkPlies - 2
       \/ layers = WingsWithKnight /\ left = MaxWalkPlies - 2
    /\ moves = <<>>
    /\ gameWinner = NoWinner
    /\ results = NoResults
    /\ line = <<hashBoard(layers)>>
    /\ call = NoCall
    /\ thrown = "none"
    /\ held = NoList

SpecWalk == InitWalk /\ [][Next]_vars

(***************************************************************************)
(* C24: a castle is generated for a king only if the king's moved bit is   *)
(* clear and the castle-rights nibble of its colour and wing is eligible;  *)
(* so once a king has made any move, even if it returns to its square, no  *)
(* castle is generated for that colour in any later position of the game.  *)
(***************************************************************************)
IsCastle(move) == move.castleRook # 0 /\ spaceGetType(move.what) = PIECETYPE_KING

\* The nibble of the wing the castle goes to: the king lands on the g file
\* or on the c file.
WingBase(move) ==
    (IF spaceGetColor(move.what) = COLOR_WHITE THEN 0 ELSE 8)
       + (IF move.to % 16 = 6 THEN 0 ELSE 4)

CastleHasRights(B, move) ==
    /\ (move.what \div SPACE_MOVED) % 2 = 0
    /\ Nibble(Current(B).castles, WingBase(move)) < 8
    /\ Nibble(Current(B).castles, WingBase(move)) = move.castleRookFrom % 16

KingHasMoved(played, color) ==
    \E i \in 1..Len(played) :
       /\ played[i].side = SideName(color)
       /\ spaceGetType(played[i].move.what) = PIECETYPE_KING

CastlesOfRights(B, played, color, list) ==
    \A i \in 1..Len(list) :
       IsCastle(list[i]) => CastleHasRights(B, list[i]) /\ ~KingHasMoved(played, color)

CastlesNeedUnmovedKing ==
    \A c \in Colors : CastlesOfRights(layers, moves, c, GenerateAll(layers, c))

\* The white king has left its square and returned to it, with both rooks
\* where they stood.
KingWentAndReturned ==
    /\ Len(moves) = 3
    /\ spaceGetType(moves[1].move.what) = PIECETYPE_KING
    /\ moves[1].move.castleRook = 0
    /\ spaceGetType(moves[3].move.what) = PIECETYPE_KING
    /\ moves[3].move.to = moves[1].move.from
    /\ Current(layers).board[Sq(0, 0)] = encodePieceSpace(PIECETYPE_ROOK, COLOR_WHITE, FALSE)
    /\ Current(layers).board[Sq(7, 0)] = encodePieceSpace(PIECETYPE_ROOK, COLOR_WHITE, FALSE)

(***************************************************************************)
(* C25: a castle is generated only if every square of the span from the    *)
(* lowest to the highest of king origin, king destination, rook origin and *)
(* rook destination is empty, apart from the king's origin and the         *)
(* castling rook's origin.                                                 *)
(***************************************************************************)
SpanOf(move) ==
    {sq \in Squares :
        /\ \E end \in CastleSquares(move) \cup {move.from, move.castleRookFrom} : sq >= end
        /\ \E end \in CastleSquares(move) \cup {move.from, move.castleRookFrom} : sq <= end}

SpanEmpty(board, move) ==
    \A sq \in SpanOf(move) \ {move.from, move.castleRookFrom} : board[sq] = SPACE_EMPTY

CastlesOverEmptySpan(board, list) ==
    \A i \in 1..Len(list) : IsCastle(list[i]) => SpanEmpty(board, list[i])

CastleSpanIsEmpty ==
    \A c \in Colors : CastlesOverEmptySpan(Current(layers).board, GenerateAll(layers, c))

\* A knight on b1, off the king's way but within the span of the queen-side
\* castle: the king-side castle is generated, the queen-side castle is not.
KnightInRooksWay ==
    /\ Current(layers).board[Sq(1, 0)] = encodePieceSpace(PIECETYPE_KNIGHT, COLOR_WHITE, FALSE)
    /\ Current(layers).board[Sq(4, 0)] = encodePieceSpace(PIECETYPE_KING, COLOR_WHITE, FALSE)
    /\ Nibble(Current(layers).castles, 4) = 0
    /\ Current(layers).turn = COLOR_WHITE
    /\ Cardinality({i \in 1..Len(MovesOfSideToMove) : IsCastle(MovesOfSideToMove[i])}) = 1

(***************************************************************************)
(* C26: in every state reached by applying moves, ep is 0x88 or the square *)
(* skipped by the double pawn step just played (rank index 2 after a White *)
(* step, 5 after a Black one) with that pawn directly in front of it; any  *)
(* other move leaves ep = 0x88, so that an en-passant capture is at hand   *)
(* for one move only.                                                      *)
(***************************************************************************)
IsPawn(sp) == sp # SPACE_EMPTY /\ spaceGetType(sp) = PIECETYPE_PAWN

IsDoubleStep(move) ==
    /\ IsPawn(move.what)
    /\ move.to - move.from \in {32, -32}

Forward(color) == IF color = COLOR_WHITE THEN 16 ELSE -16

\* ep after the move, as stated.
EpAsStated(after, move) ==
    IF IsDoubleStep(move)
    THEN /\ after.ep = (move.from + move.to) \div 2
         /\ after.ep \div 16 = (IF spaceGetColor(move.what) = COLOR_WHITE THEN 2 ELSE 5)
         /\ IsPawn(after.board[after.ep + Forward(spaceGetColor(move.what))])
         /\ spaceGetColor(after.board[after.ep + Forward(spaceGetColor(move.what))])
               = spaceGetColor(move.what)
         /\ after.ep + Forward(spaceGetColor(move.what)) = move.to
    ELSE after.ep = NO_EP

TakesInPassing(move) == move.capture # 0 /\ move.captureCoord # move.to

\* An en-passant capture answers the double step played just before it and
\* takes the pawn that made it. The generated list is a parameter.
EnPassantAnswers(played, list) ==
    \A i \in 1..Len(list) :
       TakesInPassing(list[i]) =>
          /\ Len(played) > 0
          /\ IsDoubleStep(played[Len(played)].move)
          /\ list[i].captureCoord = played[Len(played)].move.to

EpStep ==
    moves' # moves =>
       /\ EpAsStated(Current(layers'), moves'[Len(moves')].move)
       /\ EnPassantAnswers(moves', GenerateAll(layers', Current(layers').turn))

EpOfTheLastMove == [][EpStep]_vars

\* A double step that set ep, answered by a move that is not a double step.
EpSetAndReset ==
    /\ Len(moves) = 2
    /\ IsDoubleStep(moves[1].move)
    /\ moves[2].move.prior.ep = (moves[1].move.from + moves[1].move.to) \div 2
    /\ ~TakesInPassing(moves[2].move)
    /\ Current(layers).ep = NO_EP

(***************************************************************************)
(* C27: a two-square pawn advance is generated only for a pawn on its      *)
(* colour's original pawn rank with both squares in front of it empty, and *)
(* the move records the skipped square as mark_ep; a pawn that has left    *)
(* its original rank never gets one.                                       *)
(***************************************************************************)
OriginalRank(color) == IF color = COLOR_WHITE THEN 1 ELSE 6

DoubleStepAsStated(board, move) ==
    /\ board[move.from] = move.what
    /\ move.from \div 16 = OriginalRank(spaceGetColor(move.what))
    /\ move.to = move.from + 2 * Forward(spaceGetColor(move.what))
    /\ board[move.from + Forward(spaceGetColor(move.what))] = SPACE_EMPTY
    /\ board[move.to] = SPACE_EMPTY
    /\ move.markEnPassant = move.from + Forward(spaceGetColor(move.what))

DoubleStepsAsStated(board, list) ==
    \A i \in 1..Len(list) :
       /\ IsDoubleStep(list[i]) => DoubleStepAsStated(board, list[i])
       /\ list[i].markEnPassant # 0 => IsDoubleStep(list[i])

DoubleStepFromOriginalRank ==
    \A c \in Colors : DoubleStepsAsStated(Current(layers).board, GenerateAll(layers, c))

HasDoubleStepFrom(list, from) ==
    \E i \in 1..Len(list) : IsDoubleStep(list[i]) /\ list[i].from = from

\* A black pawn that went one square stands with two empty squares before it
\* and has no double step, while the pawn still on c7 has one.
PawnLeftItsRank ==
    /\ Len(moves) = 1
    /\ IsPawn(moves[1].move.what)
    /\ moves[1].move.to = moves[1].move.from - 16
    /\ Current(layers).board[moves[1].move.to - 16] = SPACE_EMPTY
    /\ Current(layers).board[moves[1].move.to - 32] = SPACE_EMPTY
    /\ ~HasDoubleStepFrom(GenerateAll(layers, COLOR_BLACK), moves[1].move.to)
    /\ HasDoubleStepFrom(GenerateAll(layers, COLOR_BLACK), Sq(2, 6))

(***************************************************************************)
(* C28: for a move that is neither a castle nor a pawn capture, moveToSAN  *)
(* emits the shortest departure qualifier that singles the move out among  *)
(* the legal moves of the same piece type to the same destination:         *)
(* nothing when there is no other such move, else the file letter when no  *)
(* other such move starts on the same file, else the rank digit when no    *)
(* other starts on the same rank, else the full origin square; a pawn      *)
(* capture always carries the departure file.                              *)
(***************************************************************************)
FileLetter(sq) == <<FILES[(sq % 16) + 1]>>
RankDigit(sq) == <<RANKS[(sq \div 16) + 1]>>

\* The origins of the other moves of the same piece type to the same square.
OtherOrigins(list, move) ==
    {list[i].from : i \in {j \in 1..Len(list) :
                              /\ ~IsCastle(list[j])
                              /\ list[j].to = move.to
                              /\ spaceGetType(list[j].what) = spaceGetType(move.what)}}
       \ {move.from}

\* The qualifier as stated, from the origins of the other moves.
QualifierAsStated(others, move) ==
    IF IsPawn(move.what) /\ move.capture # 0 THEN FileLetter(move.from)
    ELSE IF others = {} THEN <<>>
    ELSE IF \A o \in others : o % 16 # move.from % 16 THEN FileLetter(move.from)
    ELSE IF \A o \in others : o \div 16 # move.from \div 16 THEN RankDigit(move.from)
    ELSE FileLetter(move.from) \o RankDigit(move.from)

\* The origins a qualifier fits.
Fits(qualifier, sq) ==
    \/ qualifier = <<>>
    \/ qualifier = FileLetter(sq)
    \/ qualifier = RankDigit(sq)
    \/ qualifier = FileLetter(sq) \o RankDigit(sq)

\* The qualifier fits no other origin, and no shorter one does that.
SinglesOut(qualifier, others, move) ==
    /\ Fits(qualifier, move.from)
    /\ \A o \in others : ~Fits(qualifier, o)
    /\ Len(qualifier) > 0 => others # {}
    /\ Len(qualifier) = 2 =>
          /\ \E o \in others : Fits(FileLetter(move.from), o)
          /\ \E o \in others : Fits(RankDigit(move.from), o)

\* The text of a move that is no castle, around the qualifier.
SanAround(qualifier, move) ==
    _anPieceType(spaceGetType(move.what))
       \o qualifier
       \o (IF move.capture # 0 THEN <<"x">> ELSE <<>>)
       \o FileLetter(move.to) \o RankDigit(move.to)
       \o (IF move.promote # 0 THEN <<"=">> \o _anPieceType(move.promote) ELSE <<>>)

QualifiedAsStated(list, move) ==
    /\ moveToSAN(list, move, NoResults)
          = SanAround(QualifierAsStated(OtherOrigins(list, move), move), move)
    /\ ~(IsPawn(move.what) /\ move.capture # 0) =>
          SinglesOut(QualifierAsStated(OtherOrigins(list, move), move),
                     OtherOrigins(list, move), move)

AllQualifiedAsStated(list) ==
    \A i \in 1..Len(list) : ~IsCastle(list[i]) => QualifiedAsStated(list, list[i])

SanQualifierIsShortest == AllQualifiedAsStated(MovesOfSideToMove)

SansOf(list) == {moveToSAN(list, list[i], NoResults) : i \in 1..Len(list)}

\* Every kind of qualifier in one list: none, file, rank, full square, and the
\* file of a capturing pawn.
EveryQualifier ==
    {<<"K", "d", "1">>, <<"N", "c", "b", "3">>, <<"N", "5", "b", "3">>,
     <<"N", "a", "1", "b", "3">>, <<"c", "x", "d", "5">>} \subseteq SansOf(MovesOfSideToMove)

(***************************************************************************)
(* C29: perft(board, d) is the number of leaves of the tree of legal moves *)
(* at depth d, the number of lines of exactly d legal plies from the       *)
(* position, for every d >= 0: 1 for d = 0, the number of legal moves for  *)
(* d = 1, and for d >= 2 the sum over the legal moves m of perft of the    *)
(* position after m at depth d - 1.                                        *)
(***************************************************************************)
MaxDepth == 2

\* The number of lines of d legal plies from the position.
RECURSIVE Leaves(_, _)
RECURSIVE LeavesBelow(_, _, _, _)
LeavesBelow(B, list, d, i) ==
    IF i > Len(list) THEN 0
    ELSE Leaves(performMove(B, list[i]), d - 1) + LeavesBelow(B, list, d, i + 1)

Leaves(B, d) ==
    IF d = 0 THEN 1 ELSE LeavesBelow(B, GenerateAll(B, Current(B).turn), d, 1)

\* Depth 2 is counted at the start of each game only.
DepthsAt(played) == IF Len(played) = 0 THEN 0..MaxDepth ELSE 0..1

PerftCountsLeaves ==
    \A d \in DepthsAt(moves) : perft(layers, d) = Leaves(layers, d)

\* The same from depth 1 on.
PerftCountsLeavesFromOne ==
    \A d \in DepthsAt(moves) \ {0} : perft(layers, d) = Leaves(layers, d)

\* perft at depth 0 is the number of legal moves, not 1.
PerftAtDepthZero ==
    /\ Len(moves) = 0
    /\ perft(layers, 0) = Len(MovesOfSideToMove)
    /\ perft(layers, 0) > 1
    /\ perft(layers, MaxDepth) > perft(layers, 1)

(***************************************************************************)
(* The board the generator, moveAndCheckResults and perft leave behind:    *)
(* every save, set, performMove, putBoardHash and restore they make, in    *)
(* the order of the source. The moves they return are those of the         *)
(* operators above.                                                        *)
(***************************************************************************)
\* _tryPushMove: save, performMove, restore.
AfterTryPushMove(B, move) == BoardRestore(performMove(BoardSave(B), move))

\* One direction of _findMoves; after a try the loop goes on from the board the
\* try has left.
RECURSIVE AfterMovesRay(_, _, _, _, _, _, _, _)
RECURSIVE RayGoesOn(_, _, _, _, _, _, _, _, _)
RayGoesOn(b, B, sp, idx, step, newIdx, n, maxDist, prior) ==
    IF Len(b) = Len(B) /\ BoardGet(B, newIdx) = SPACE_EMPTY
    THEN AfterMovesRay(b, sp, idx, step, newIdx + step, n + 1, maxDist, prior)
    ELSE b

AfterMovesRay(B, sp, idx, step, newIdx, n, maxDist, prior) ==
    IF ~(OnBoard(newIdx) /\ n < maxDist) THEN B
    ELSE IF BoardGet(B, newIdx) # SPACE_EMPTY
            /\ spaceGetColor(BoardGet(B, newIdx)) # 8 - spaceGetColor(sp)
    THEN B
    ELSE RayGoesOn(AfterTryPushMove(B, IF BoardGet(B, newIdx) = SPACE_EMPTY
                                       THEN createSimpleMove(sp, idx, newIdx, prior)
                                       ELSE createSimpleCapture(sp, idx, newIdx,
                                                                BoardGet(B, newIdx),
                                                                newIdx, prior)),
                   B, sp, idx, step, newIdx, n, maxDist, prior)

RECURSIVE AfterFindMoves(_, _, _, _, _, _, _, _)
RECURSIVE DirsGoOn(_, _, _, _, _, _, _, _, _)
DirsGoOn(b, B, sp, idx, dirs, dirsLow, dirsHigh, maxDist, prior) ==
    IF Len(b) = Len(B)
    THEN AfterFindMoves(b, sp, idx, dirs, dirsLow + 1, dirsHigh, maxDist, prior)
    ELSE b

AfterFindMoves(B, sp, idx, dirs, dirsLow, dirsHigh, maxDist, prior) ==
    IF dirsLow >= dirsHigh THEN B
    ELSE DirsGoOn(AfterMovesRay(B, sp, idx, dirs[dirsLow + 1], idx + dirs[dirsLow + 1], 0,
                                maxDist, prior),
                  B, sp, idx, dirs, dirsLow, dirsHigh, maxDist, prior)

\* _tryCastle up to its restore: the kings placed along the way and taken back.
AfterCastlePath(B, move) ==
    BoardRestore(PlaceKings(BoardSet(BoardSet(BoardSave(B), move.from, SPACE_EMPTY),
                                     move.castleRookFrom, SPACE_EMPTY),
                            move.what, Min2(move.from, move.to), Max2(move.from, move.to)))

CastleTried(b, B, move) ==
    IF CastlePathInDanger(B, move) THEN b ELSE AfterTryPushMove(b, move)

AfterTryCastle(B, move) ==
    IF CastleSpan(B, move) THEN B ELSE CastleTried(AfterCastlePath(B, move), B, move)

\* The two wings of _findKingCastles, the king's first.
RECURSIVE AfterCastles(_, _, _, _, _)
WingsGoOn(b, sp, idx, prior, kingSide) ==
    IF kingSide THEN AfterCastles(b, sp, idx, prior, FALSE) ELSE b

AfterCastles(B, sp, idx, prior, kingSide) ==
    IF castleMapGetFile(Current(B).castles, spaceGetColor(sp), kingSide) < 8
    THEN WingsGoOn(AfterTryCastle(B, createCastle(
                      sp, idx, RankOf(idx) + (IF kingSide THEN 6 ELSE 2),
                      BoardGet(B, RankOf(idx) + castleMapGetFile(Current(B).castles,
                                                                 spaceGetColor(sp), kingSide)),
                      RankOf(idx) + castleMapGetFile(Current(B).castles,
                                                     spaceGetColor(sp), kingSide),
                      RankOf(idx) + (IF kingSide THEN 5 ELSE 3), prior)),
                   sp, idx, prior, kingSide)
    ELSE WingsGoOn(B, sp, idx, prior, kingSide)

AfterFindKingCastles(B, sp, idx, prior) ==
    IF spaceHasMoved(sp) THEN B ELSE AfterCastles(B, sp, idx, prior, TRUE)

\* The tries of _pawnMoves in their order: one up, two up, and the two capture
\* squares; a try that is not made leaves the board alone.
PawnTry(B, sp, idx, oneUp, twoUp, promote, prior, k) ==
    IF k = 1
    THEN IF BoardGet(B, oneUp) = SPACE_EMPTY
         THEN <<createFullMove(sp, idx, oneUp, 0, 0, 0, 0, 0, promote, 0, prior)>>
         ELSE <<>>
    ELSE IF k = 2
    THEN IF BoardGet(B, oneUp) = SPACE_EMPTY /\ ~spaceHasMoved(sp)
            /\ OnBoard(twoUp) /\ BoardGet(B, twoUp) = SPACE_EMPTY
         THEN <<createFullMove(sp, idx, twoUp, 0, 0, 0, 0, 0, 0, oneUp, prior)>>
         ELSE <<>>
    ELSE IF ~OnBoard(oneUp + PAWN_CAPS[k - 2]) THEN <<>>
    ELSE IF oneUp + PAWN_CAPS[k - 2] = Current(B).ep
    THEN <<createFullMove(sp, idx, oneUp + PAWN_CAPS[k - 2],
                          BoardGet(B, idx + PAWN_CAPS[k - 2]), idx + PAWN_CAPS[k - 2],
                          0, 0, 0, promote, 0, prior)>>
    ELSE IF BoardGet(B, oneUp + PAWN_CAPS[k - 2]) # SPACE_EMPTY
            /\ spaceGetColor(BoardGet(B, oneUp + PAWN_CAPS[k - 2])) = 8 - spaceGetColor(sp)
    THEN <<createFullMove(sp, idx, oneUp + PAWN_CAPS[k - 2],
                          BoardGet(B, oneUp + PAWN_CAPS[k - 2]),
                          oneUp + PAWN_CAPS[k - 2], 0, 0, 0, promote, 0, prior)>>
    ELSE <<>>

RECURSIVE AfterPawnTries(_, _, _, _, _, _, _, _)
PawnGoesOn(b, B, sp, idx, oneUp, twoUp, promote, prior, k) ==
    IF Len(b) = Len(B)
    THEN AfterPawnTries(b, sp, idx, oneUp, twoUp, promote, prior, k + 1)
    ELSE b

Tried(B, tries) == IF tries = <<>> THEN B ELSE AfterTryPushMove(B, tries[1])

AfterPawnTries(B, sp, idx, oneUp, twoUp, promote, prior, k) ==
    IF k > 2 + Len(PAWN_CAPS) THEN B
    ELSE PawnGoesOn(Tried(B, PawnTry(B, sp, idx, oneUp, twoUp, promote, prior, k)),
                    B, sp, idx, oneUp, twoUp, promote, prior, k)

AfterPawnMoves(B, sp, idx, prior) ==
    IF ~OnBoard(idx + 16 * PawnDir(sp)) THEN B
    ELSE AfterPawnTries(B, sp, idx, idx + 16 * PawnDir(sp), idx + 32 * PawnDir(sp),
                        IF ~OnBoard(idx + 32 * PawnDir(sp)) THEN PIECETYPE_QUEEN ELSE 0,
                        prior, 1)

\* The directions, the part of them and the distance listValidMoves passes to
\* _findMoves for the piece type.
DirsOf(type) == IF type = PIECETYPE_KNIGHT THEN KNIGHT ELSE DIRS
DirsLowOf(type) == IF type = PIECETYPE_BISHOP THEN 4 ELSE 0
DirsHighOf(type) == IF type = PIECETYPE_ROOK THEN 4 ELSE 8
MaxDistOf(type) == IF type \in {PIECETYPE_KNIGHT, PIECETYPE_KING} THEN 1 ELSE 8

AfterKingMoves(b, sp, idx, type, prior) ==
    IF type = PIECETYPE_KING THEN AfterFindKingCastles(b, sp, idx, prior) ELSE b

AfterPieceMoves(b, sp, idx, type, prior) ==
    IF type = PIECETYPE_PAWN THEN AfterPawnMoves(b, sp, idx, prior)
    ELSE AfterKingMoves(AfterFindMoves(b, sp, idx, DirsOf(type), DirsLowOf(type),
                                       DirsHighOf(type), MaxDistOf(type), prior),
                        sp, idx, type, prior)

\* listValidMoves that does not restore the layer it saved.
AfterListValidUnrestored(B, idx) ==
    AfterPieceMoves(BoardSet(BoardSave(B), idx, SPACE_EMPTY), BoardGet(B, idx), idx,
                    spaceGetType(BoardGet(B, idx)), getPriorState(B))

\* listValidMoves: save, the square emptied, the moves tried, restore.
AfterListValid(B, idx) ==
    BoardRestore(AfterPieceMoves(BoardSet(BoardSave(B), idx, SPACE_EMPTY),
                                 BoardGet(B, idx), idx,
                                 spaceGetType(BoardGet(B, idx)), getPriorState(B)))

\* The loop of listAllValidMoves over the piece list it started with.
RECURSIVE AfterGenerateFrom(_, _, _, _)
PiecesGoOn(b, B, color, list, i) ==
    IF Len(b) = Len(B) THEN AfterGenerateFrom(b, color, list, i + 1) ELSE b

Listed(B, color, idx) ==
    IF spaceGetColor(BoardGet(B, idx)) = color THEN AfterListValid(B, idx) ELSE B

AfterGenerateFrom(B, color, list, i) ==
    IF i > Len(list) THEN B
    ELSE PiecesGoOn(Listed(B, color, list[i]), B, color, list, i)

WithCacheOf(B, color, list) ==
    SetCurrent(B, [Current(B) EXCEPT !.moveCache[color] = <<list>>])

\* listAllValidMoves: nothing is done when the list is cached; else every
\* piece of the colour is listed and the list is kept in the cache.
AfterListAllValid(B, color) ==
    IF Current(B).moveCache[color] # NoCache THEN B
    ELSE WithCacheOf(AfterGenerateFrom(B, color, Current(B).pieceList, 1), color,
                     GenerateAll(B, color))

\* checkMoveResults: the enemy's moves listed, the position hashed.
Hashed(b) == putBoardHash(b, hashBoard(b))

AfterCheckMoveResults(B, moveColor) == Hashed(AfterListAllValid(B, 8 - moveColor))

\* moveAndCheckResults: save, performMove, checkMoveResults, restore.
AfterMoveAndCheckResults(B, move) ==
    BoardRestore(AfterCheckMoveResults(performMove(BoardSave(B), move),
                                       spaceGetColor(move.what)))

\* perft: the moves listed and, from depth 2 on, each of them made on a layer
\* of its own and taken back. The moves are those the listing left in the
\* cache of the side to move.
RECURSIVE AfterPerft(_, _)
RECURSIVE AfterPerftSum(_, _, _, _)
PerftGoesOn(b, B, list, depth, i) ==
    IF Len(b) = Len(B) THEN AfterPerftSum(b, list, depth, i + 1) ELSE b

AfterPerftSum(B, list, depth, i) ==
    IF depth <= 1 \/ i > Len(list) THEN B
    ELSE PerftGoesOn(BoardRestore(AfterPerft(performMove(BoardSave(B), list[i]), depth - 1)),
                     B, list, depth, i)

PerftListed(b, depth) ==
    AfterPerftSum(b, Current(b).moveCache[Current(b).turn][1], depth, 1)

AfterPerft(B, depth) == PerftListed(AfterListAllValid(B, Current(B).turn), depth)

(***************************************************************************)
(* The four of them called on a board: on one of five positions or on the  *)
(* position one move later, on the bottom layer or on a saved one.         *)
(***************************************************************************)
MaxTrialPlies == 1

TrialStarts ==
    {buildStandardBoard, CastleUnderFire, BothWings(FALSE), EnPassantFree, Promotion}

InitTrial ==
    /\ \E b \in TrialStarts : layers \in {b, BoardSave(b)}
    /\ left = MaxTrialPlies + 1
    /\ moves = <<>>
    /\ gameWinner = NoWinner
    /\ results = NoResults
    /\ line = <<hashBoard(layers)>>
    /\ call = NoCall
    /\ thrown = "none"
    /\ held = NoList

TrialCall(op, arg) == [op |-> op, input |-> [NoInput EXCEPT !.kind = "number", !.text = arg]]

\* A move of the game before the call.
TrialMove ==
    /\ left > 1
    /\ ~isGameOver(layers)
    /\ MoveAmong(listAllValidMoves(layers, Current(layers).turn))

\* listValidMoves(board, idx) for a piece on the board. The call is the last
\* of the run.
CallListValid ==
    /\ left > 0
    /\ \E i \in 1..Len(Current(layers).pieceList) :
          /\ layers' = AfterListValid(layers, Current(layers).pieceList[i])
          /\ call' = TrialCall("listValidMoves", <<Current(layers).pieceList[i]>>)
    /\ left' = 0
    /\ UNCHANGED <<moves, gameWinner, results, line, thrown, held>>

\* listAllValidMoves(board, color)
CallListAll ==
    /\ left > 0
    /\ \E color \in Colors :
          /\ layers' = AfterListAllValid(layers, color)
          /\ call' = TrialCall("listAllValidMoves", <<color>>)
    /\ left' = 0
    /\ UNCHANGED <<moves, gameWinner, results, line, thrown, held>>

MoveAndCheckAmong(list) ==
    \E i \in 1..Len(list) :
       /\ layers' = AfterMoveAndCheckResults(layers, list[i])
       /\ call' = TrialCall("moveAndCheckResults", <<i>>)

\* moveAndCheckResults(board, move) for a legal move of the side to move
CallMoveAndCheck ==
    /\ left > 0
    /\ MoveAndCheckAmong(listAllValidMoves(layers, Current(layers).turn))
    /\ left' = 0
    /\ UNCHANGED <<moves, gameWinner, results, line, thrown, held>>

\* perft(board, depth); depth 2 and more on the positions of the start only
CallPerft ==
    /\ left > 0
    /\ \E depth \in 0..MaxDepth :
          /\ depth <= 1 \/ Len(moves) = 0
          /\ layers' = AfterPerft(layers, depth)
          /\ call' = TrialCall("perft", <<depth>>)
    /\ left' = 0
    /\ UNCHANGED <<moves, gameWinner, results, line, thrown, held>>

NextTrial == TrialMove \/ CallListValid \/ CallListAll \/ CallMoveAndCheck \/ CallPerft

SpecTrial == InitTrial /\ [][NextTrial]_vars

(***************************************************************************)
(* C30: listValidMoves, listAllValidMoves, moveAndCheckResults and perft   *)
(* each return with the layer index it was entered with and with the       *)
(* current layer's board, attack map, piece list, clock, move number, ep,  *)
(* status, turn, castle rights and seen counts as they were; only the move *)
(* cache may differ.                                                       *)
(***************************************************************************)
TrialOps == {"listValidMoves", "listAllValidMoves", "moveAndCheckResults", "perft"}

TrialStep ==
    (call' # call /\ call'.op \in TrialOps) =>
       /\ Len(layers') = Len(layers)
       /\ FieldsKept(Len(layers))

TrialsLeaveTheLayer == [][TrialStep]_vars

\* perft at depth 2 has returned on a saved layer, above a layer that has seen
\* the position, and has left the moves of the side to move in the cache.
PerftReturned ==
    /\ call.op = "perft"
    /\ call.input.text[1] = MaxDepth
    /\ perft(layers, MaxDepth) > Len(MovesOfSideToMove)
    /\ Len(layers) = 2
    /\ DOMAIN layers[1].seen # {}
    /\ Current(layers).moveCache[Current(layers).turn] # NoCache

(***************************************************************************)
(* C31: when ChessGame.move fails (ChessBadMove for a move that is         *)
(* illegal, unparsable or ambiguous or for an invalid promotion letter,    *)
(* ChessNeedsPromotion, ChessGameOver), board, turn, status, castle        *)
(* rights, ep, clock, move number, repetition counts, move history and     *)
(* winner are as they were before the call.                                *)
(***************************************************************************)
MoveFailedStep ==
    (call'.op = "move" /\ left' # left /\ thrown' # "none") =>
       /\ Len(layers') = Len(layers)
       /\ FieldsKept(Len(layers))
       /\ moves' = moves
       /\ gameWinner' = gameWinner

FailedMoveChangesNothing == [][MoveFailedStep]_vars

\* A promotion given without its piece was refused with ChessNeedsPromotion
\* after a move was played, the moves listed for the refusal left in the cache.
PromotionRefused ==
    /\ call.op = "move"
    /\ thrown = "ChessNeedsPromotion"
    /\ Len(moves) = 1
    /\ Current(layers).moveCache[Current(layers).turn] # NoCache

(***************************************************************************)
(* C32: after a successful ChessGame.move(m) followed by undoMove() the    *)
(* game is in the state it had before move(m): same board, turn, clock,    *)
(* move number, ep, castle rights, status ACTIVE, no winner, same history  *)
(* and the same repetition count of every position; undoMove() on an empty *)
(* history changes nothing.                                                *)
(***************************************************************************)
\* The position the game started from.
StartOf(first) == CHOOSE b \in GameStarts : hashBoard(b) = first

\* How often the layers have counted the position; a position never counted
\* has the count 0.
CountOf(B, hash) ==
    IF LayersSeeing(B, hash) = {} THEN 0 ELSE B[NearestSeeing(B, hash)].seen[hash]

HashesOf(B) == UNION {DOMAIN B[i].seen : i \in 1..Len(B)}

SameGameState(B, start) ==
    /\ Len(B) = Len(start)
    /\ Current(B).board = Current(start).board
    /\ Current(B).turn = Current(start).turn
    /\ Current(B).clock = Current(start).clock
    /\ Current(B).moveNum = Current(start).moveNum
    /\ Current(B).ep = Current(start).ep
    /\ Current(B).castles = Current(start).castles
    /\ Current(B).status = GAMESTATUS_ACTIVE

SameCounts(B, start) ==
    \A hash \in HashesOf(B) \cup HashesOf(start) : CountOf(B, hash) = CountOf(start, hash)

\* The first move of the game was played and has been taken back.
MoveTakenBack ==
    /\ call.op = "undoMove"
    /\ results # NoResults
    /\ moves = <<>>

UndoRestoresTheGame ==
    MoveTakenBack =>
       /\ SameGameState(layers, StartOf(line[1]))
       /\ SameCounts(layers, StartOf(line[1]))
       /\ gameWinner = NoWinner

\* What does hold of a move taken back: all but the counts.
UndoRestoresThePosition ==
    MoveTakenBack =>
       /\ SameGameState(layers, StartOf(line[1]))
       /\ gameWinner = NoWinner

\* The position the move led to is still counted once after the undo.
MoveLeftCounted ==
    /\ MoveTakenBack
    /\ \E hash \in HashesOf(layers) :
          /\ CountOf(layers, hash) = 1
          /\ CountOf(StartOf(line[1]), hash) = 0

UndoOfNothingStep ==
    (call'.op = "undoMove" /\ left' # left /\ moves = <<>>)
       => /\ layers' = layers
          /\ moves' = moves
          /\ gameWinner' = gameWinner

UndoOfNothingChangesNothing == [][UndoOfNothingStep]_vars

(***************************************************************************)
(* Games in which moves are played and taken back.                         *)
(***************************************************************************)
MaxUndoCalls == 3

\* Both white castles at hand and a second white rook on the h-file, two
\* ranks before the rook of the king's wing; a black knight that can take the
\* rook on h1 and a black rook that can take the rook on h3.
RooksOnTheFile(turn) ==
    LoadPosition(<<Pc(PIECETYPE_KING, COLOR_WHITE, FALSE, 4, 0),
                   Pc(PIECETYPE_ROOK, COLOR_WHITE, FALSE, 0, 0),
                   Pc(PIECETYPE_ROOK, COLOR_WHITE, FALSE, 7, 0),
                   Pc(PIECETYPE_ROOK, COLOR_WHITE, TRUE, 7, 2),
                   Pc(PIECETYPE_KING, COLOR_BLACK, TRUE, 2, 6),
                   Pc(PIECETYPE_KNIGHT, COLOR_BLACK, TRUE, 6, 2),
                   Pc(PIECETYPE_ROOK, COLOR_BLACK, TRUE, 7, 7)>>,
                 turn, buildCastleMap(0, 7, NoRook, NoRook), NO_EP, 0, 10)

UndoStarts ==
    { [board |-> Castle960(5, 7), calls |-> MaxUndoCalls],
      [board |-> Castle960(6, 7), calls |-> MaxUndoCalls],
      [board |-> Castle960(5, 6), calls |-> MaxUndoCalls],
      [board |-> EnPassantFree, calls |-> MaxUndoCalls],
      [board |-> RooksOnTheFile(COLOR_WHITE), calls |-> MaxUndoCalls - 1],
      [board |-> RooksOnTheFile(COLOR_BLACK), calls |-> MaxUndoCalls - 1] }

InitUndo ==
    /\ \E s \in UndoStarts :
          /\ layers = s.board
          /\ left = s.calls
    /\ moves = <<>>
    /\ gameWinner = NoWinner
    /\ results = NoResults
    /\ line = <<hashBoard(layers)>>
    /\ call = NoCall
    /\ thrown = "none"
    /\ held = NoList

NextUndo == GameMove \/ UndoMove

SpecUndo == InitUndo /\ [][NextUndo]_vars

(***************************************************************************)
(* C33: in every state reached from a well-formed start, standard or       *)
(* Chess960, by legal moves and undoMove, the board holds exactly one king *)
(* of each colour, also after the Chess960 castles in which the king does  *)
(* not change square or starts from the square the rook goes to.           *)
(***************************************************************************)
KingsOf(B, color) ==
    Cardinality({sq \in Squares :
                    /\ Current(B).board[sq] # SPACE_EMPTY
                    /\ spaceGetType(Current(B).board[sq]) = PIECETYPE_KING
                    /\ spaceGetColor(Current(B).board[sq]) = color})

OneKingOfEachColour ==
    \A color \in Colors : KingsOf(layers, color) = 1

\* The castles that performMove does not land: the king goes to the square
\* its rook starts from.
LostByPerform(move) ==
    move.castleRook # 0 /\ move.to = move.castleRookFrom

\* The castles that revertMove does not give back: the king stays where it
\* is, or starts from the square its rook goes to.
LostByRevert(move) ==
    move.castleRook # 0 /\ (move.from = move.to \/ move.castleRookTo = move.from)

\* Every other move, played or taken back, keeps the kings.
KingsKeptStep ==
    /\ (Len(moves') > Len(moves) /\ ~LostByPerform(moves'[Len(moves')].move))
          => \A color \in Colors : KingsOf(layers', color) = KingsOf(layers, color)
    /\ (Len(moves') < Len(moves) /\ ~LostByRevert(moves[Len(moves)].move))
          => \A color \in Colors : KingsOf(layers', color) = KingsOf(layers, color)

KingsKeptByOtherMoves == [][KingsKeptStep]_vars

\* The castle of the king that stays on g1 was taken back and the white king
\* is gone.
KingGoneAfterUndo ==
    /\ call.op = "undoMove"
    /\ moves = <<>>
    /\ line[1] = hashBoard(Castle960(6, 7))
    /\ KingsOf(layers, COLOR_WHITE) = 0

(***************************************************************************)
(* C34: in every state reached from a well-formed start by applying and    *)
(* reverting legal moves, an eligible castle-rights nibble of a colour and *)
(* wing means that the square of that colour's back rank on the recorded   *)
(* file holds a rook of that colour whose moved-bit is clear, so that a    *)
(* generated castle carries a real rook of the castling side.              *)
(***************************************************************************)
BackRankOf(color) == IF color = COLOR_WHITE THEN 0 ELSE 7

\* The square the map records for the wing.
RecordedSquare(castles, color, kingSide) ==
    Sq(castleMapGetFile(castles, color, kingSide), BackRankOf(color))

IsEligible(castles, color, kingSide) ==
    castleMapGetFile(castles, color, kingSide) < 8

IsUnmovedRookOf(space, color) ==
    /\ space # SPACE_EMPTY
    /\ spaceGetType(space) = PIECETYPE_ROOK
    /\ spaceGetColor(space) = color
    /\ ~spaceHasMoved(space)

EligibleWingHasItsRook(B) ==
    \A color \in Colors : \A kingSide \in BOOLEAN :
       IsEligible(Current(B).castles, color, kingSide)
          => IsUnmovedRookOf(BoardGet(B, RecordedSquare(Current(B).castles, color, kingSide)),
                             color)

\* A castle is the move that gives its rook a square to go to.
CastlesCarryARook(list) ==
    \A i \in 1..Len(list) :
       list[i].castleRookTo # 0
          => /\ list[i].castleRook # 0
             /\ spaceGetType(list[i].castleRook) = PIECETYPE_ROOK
             /\ spaceGetColor(list[i].castleRook) = spaceGetColor(list[i].what)

EligibleRightHasRook ==
    /\ EligibleWingHasItsRook(layers)
    /\ CastlesCarryARook(listAllValidMoves(layers, Current(layers).turn))

HasCastle(list) == \E i \in 1..Len(list) : list[i].castleRookTo # 0

\* The knight took the rook on h1: the right of the king's wing is gone, the
\* one of the queen's wing is eligible and has its rook.
RookTakenOnItsSquare ==
    /\ Len(moves) = 1
    /\ moves[1].move.capture # 0
    /\ moves[1].move.captureCoord = Sq(7, 0)
    /\ ~IsEligible(Current(layers).castles, COLOR_WHITE, TRUE)
    /\ IsEligible(Current(layers).castles, COLOR_WHITE, FALSE)
    /\ HasCastle(listAllValidMoves(layers, COLOR_WHITE))

(***************************************************************************)
(* C35: during play a side's castling right on a wing becomes ineligible   *)
(* only when that side's king moves or when the rook standing on the       *)
(* wing's recorded back-rank square moves or is captured; moving or        *)
(* capturing any other rook, such as one on the same file on another rank  *)
(* of the same board half, leaves the right eligible.                      *)
(***************************************************************************)
RightLost(color, kingSide) ==
    /\ IsEligible(Current(layers).castles, color, kingSide)
    /\ ~IsEligible(Current(layers').castles, color, kingSide)

KingOrItsRook(move, color, square) ==
    \/ spaceGetType(move.what) = PIECETYPE_KING /\ spaceGetColor(move.what) = color
    \/ move.from = square
    \/ move.capture # 0 /\ move.captureCoord = square

\* A rook leaves, or is taken on, a square of the recorded file in the
\* colour's half of the board.
RookOfTheFile(move, color, square) ==
    \/ /\ spaceGetType(move.what) = PIECETYPE_ROOK
       /\ move.from % 16 = square % 16
       /\ (move.from < 64) = (color = COLOR_WHITE)
    \/ /\ move.capture # 0
       /\ spaceGetType(move.capture) = PIECETYPE_ROOK
       /\ move.captureCoord % 16 = square % 16
       /\ (move.captureCoord < 64) = (color = COLOR_WHITE)

MovePlayed == Len(moves') > Len(moves)

RightLostStep ==
    MovePlayed =>
       \A color \in Colors : \A kingSide \in BOOLEAN :
          RightLost(color, kingSide)
             => KingOrItsRook(moves'[Len(moves')].move, color,
                              RecordedSquare(Current(layers).castles, color, kingSide))

RightLostOnlyByKingOrItsRook == [][RightLostStep]_vars

\* What does hold: the right goes with the king or with any rook of the
\* recorded file in the colour's half of the board.
RightLostAsMappedStep ==
    MovePlayed =>
       \A color \in Colors : \A kingSide \in BOOLEAN :
          RightLost(color, kingSide)
             => \/ KingOrItsRook(moves'[Len(moves')].move, color,
                                 RecordedSquare(Current(layers).castles, color, kingSide))
                \/ RookOfTheFile(moves'[Len(moves')].move, color,
                                 RecordedSquare(Current(layers).castles, color, kingSide))

RightLostAsMapped == [][RightLostAsMappedStep]_vars

\* The rook on h3 has moved along its rank: the right of the king's wing is
\* gone while king and rook stand unmoved on e1 and h1.
RightLostToAnotherRook ==
    /\ Len(moves) = 1
    /\ moves[1].move.from = Sq(7, 2)
    /\ moves[1].move.capture = 0
    /\ ~IsEligible(Current(layers).castles, COLOR_WHITE, TRUE)
    /\ IsUnmovedRookOf(BoardGet(layers, Sq(7, 0)), COLOR_WHITE)
    /\ ~spaceHasMoved(BoardGet(layers, Sq(4, 0)))

(***************************************************************************)
(* C36: in every state reached through ChessGame's move, undoMove,         *)
(* resignGame and drawGame, getStatus reports a winner ('white', 'black'   *)
(* or 'draw') exactly when the status is not ACTIVE, and the winner is     *)
(* 'draw' exactly when the status is one of the draw statuses.             *)
(***************************************************************************)
\* getStatus: the winner is part of the Status when #gameWinner is set.
ReportsWinner == gameWinner # NoWinner

WinnerGoesWithStatus ==
    /\ ReportsWinner <=> Current(layers).status # GAMESTATUS_ACTIVE
    /\ gameWinner = "draw" <=> Current(layers).status >= GAMESTATUS_DRAW

\* What does hold: a winner is reported of games that are over only, and it
\* is the one the status tells; and every game over by play or by resigning
\* has its winner.
WinnerFitsStatus ==
    /\ ReportsWinner => Current(layers).status # GAMESTATUS_ACTIVE
    /\ gameWinner = "draw" => Current(layers).status >= GAMESTATUS_DRAW
    /\ (ReportsWinner /\ gameWinner # "draw")
          => Current(layers).status \in {GAMESTATUS_CHECKMATE, GAMESTATUS_RESIGNED}
    /\ (Current(layers).status # GAMESTATUS_ACTIVE /\ Current(layers).status # GAMESTATUS_DRAW)
          => ReportsWinner

\* The game was drawn by agreement and getStatus names no winner.
DrawnWithoutWinner ==
    /\ call.op = "drawGame"
    /\ thrown = "none"
    /\ Current(layers).status = GAMESTATUS_DRAW
    /\ ~ReportsWinner

(***************************************************************************)
(* gameFromPGN over the tokens of the lexer: the tag pairs, then the move  *)
(* list and the end of the game.  line holds the tokens not yet shifted,   *)
(* held.list the tags, results the PgnOutput returned.                     *)
(***************************************************************************)
MaxTokens == 5

Token(type, value) == [type |-> type, value |-> value]

\* A token of a single character has no value.
Undefined == <<"undefined">>

\* The value of an Int token is kept as its digits; parseInt gives the number
\* where the token is read as a move number.
parseInt(digits) == IF digits = <<"1">> THEN 1 ELSE 2

TokenKinds ==
    {Token("[", Undefined), Token("]", Undefined), Token("*", Undefined),
     Token("Sym", <<"E", "v", "e", "n", "t">>), Token("Str", <<"x">>),
     Token("Int", <<"1">>)}

WellFormedTag ==
    <<Token("[", Undefined), Token("Sym", <<"E", "v", "e", "n", "t">>),
      Token("Str", <<"x">>), Token("]", Undefined)>>

TokenLists ==
    UNION {[1..n -> TokenKinds] : n \in 0..MaxTokens}

\* The token lists drawn, and the same behind a tag pair in order.
InitTags ==
    /\ \E tokens \in TokenLists : \E before \in {<<>>, WellFormedTag} :
          /\ line = before \o tokens
          /\ call = [op |-> "none", input |-> before \o tokens]
    /\ layers = buildStandardBoard
    /\ left = 0
    /\ moves = <<>>
    /\ gameWinner = NoWinner
    /\ results = NoResults
    /\ thrown = "none"
    /\ held = NoList

\* _expectToken makes its error and does not throw it.
_expectToken(tok, shouldBe) == "none"

\* validatePGNKeyValue is not among the files of the source: it returns or
\* throws.
ValidateVerdicts == {"none", "ChessParseError", "ChessBadInput"}

\* tags[key] is set to a value that counts as true.
HasTag(tags, key) ==
    \E t \in 1..Len(tags) : tags[t].key = key /\ tags[t].value # Undefined

WithTag(tags, key, value) ==
    SelectSeq(tags, LAMBDA t : t.key # key) \o <<[key |-> key, value |-> value]>>

\* gameFromPGN has thrown.
PgnThrown(error) ==
    /\ thrown' = error
    /\ call' = [op |-> "gameFromPGN", input |-> call.input]
    /\ line' = <<>>
    /\ UNCHANGED <<results, held>>

\* _parseTag once the four tokens are shifted and expected
TagShifted(key, val, verdict) ==
    IF _expectToken(line[1], "[") # "none" THEN PgnThrown(_expectToken(line[1], "["))
    ELSE IF _expectToken(key, "Sym") # "none" THEN PgnThrown(_expectToken(key, "Sym"))
    ELSE IF _expectToken(val, "Str") # "none" THEN PgnThrown(_expectToken(val, "Str"))
    ELSE IF verdict # "none" THEN PgnThrown(verdict)
    ELSE IF HasTag(held.list, key.value) THEN PgnThrown("ChessParseError")
    ELSE /\ held' = [held EXCEPT !.list = WithTag(held.list, key.value, val.value)]
         /\ line' = SubSeq(line, 5, Len(line))
         /\ call' = [op |-> "_parseTag", input |-> call.input]
         /\ UNCHANGED <<thrown, results>>

\* One turn of the loop of gameFromPGN: _parseTag.  key.value of a token
\* that is not there is a TypeError.
_parseTag ==
    /\ call.op # "gameFromPGN"
    /\ line # <<>>
    /\ line[1].type = "["
    /\ IF Len(line) < 3 THEN PgnThrown("TypeError")
       ELSE \E verdict \in ValidateVerdicts : TagShifted(line[2], line[3], verdict)
    /\ UNCHANGED <<layers, left, moves, gameWinner>>

\* _parseMoveList on the standard start: the error it throws, or "none" and
\* the tokens it leaves.  The symbols drawn name no move, so that _doMove
\* ends with the error of findMoveBySAN.
RECURSIVE _parseMoveList(_, _)
_parseMoveList(tokens, B) ==
    IF tokens = <<>> THEN [error |-> "ChessParseError", rest |-> <<>>]
    ELSE IF Head(tokens).type = "Int"
    THEN IF Current(B).moveNum # parseInt(Head(tokens).value)
         THEN [error |-> "ChessParseError", rest |-> <<>>]
         ELSE _parseMoveList(Tail(tokens), B)
    ELSE IF Head(tokens).type = "*" THEN [error |-> "none", rest |-> tokens]
    ELSE IF Head(tokens).type = "Sym"
    THEN [error |-> findMoveBySAN(listAllValidMoves(B, Current(B).turn),
                                  Head(tokens).value).error,
          rest |-> <<>>]
    ELSE [error |-> "ChessParseError", rest |-> <<>>]

\* _parseEndOfGame: the error it throws, or "none" for the ending '*'.
_parseEndOfGame(tokens) ==
    IF tokens = <<>> THEN "ChessParseError"
    ELSE IF Len(tokens) > 1 THEN "ChessParseError"
    ELSE IF Head(tokens).type = "*" THEN "none"
    ELSE "ChessParseError"

PgnOutput(tags) == <<[tags |-> tags, winner |-> NoWinner]>>

MovesParsed(parsed) ==
    IF parsed.error # "none" THEN PgnThrown(parsed.error)
    ELSE IF _parseEndOfGame(parsed.rest) # "none"
    THEN PgnThrown(_parseEndOfGame(parsed.rest))
    ELSE /\ results' = PgnOutput(held.list)
         /\ call' = [op |-> "gameFromPGN", input |-> call.input]
         /\ line' = <<>>
         /\ UNCHANGED <<thrown, held>>

\* The rest of gameFromPGN once no tag pair is left.
ParseMoves ==
    /\ call.op # "gameFromPGN"
    /\ IF line = <<>> THEN TRUE ELSE line[1].type # "["
    /\ MovesParsed(_parseMoveList(line, layers))
    /\ UNCHANGED <<layers, left, moves, gameWinner>>

NextTags == _parseTag \/ ParseMoves

SpecTags == InitTags /\ [][NextTags]_vars

(***************************************************************************)
(* C37: gameFromPGN fails with ChessParseError, and records no tag,        *)
(* whenever the four tokens of a tag pair are not, in this order, '[', a   *)
(* symbol, a string and ']'.                                               *)
(***************************************************************************)
InOrder(tokens) ==
    /\ Len(tokens) >= 4
    /\ tokens[1].type = "["
    /\ tokens[2].type = "Sym"
    /\ tokens[3].type = "Str"
    /\ tokens[4].type = "]"

\* The tokens begin a tag pair that is not in order.
OutOfOrder(tokens) ==
    /\ tokens # <<>>
    /\ tokens[1].type = "["
    /\ ~InOrder(tokens)

PgnReturned == call.op = "gameFromPGN"

TagPairOutOfOrderFails ==
    (PgnReturned /\ OutOfOrder(call.input))
       => /\ thrown = "ChessParseError"
          /\ results = NoResults
          /\ held.list = <<>>

\* What does hold: the order of the types is never the reason gameFromPGN
\* fails; a tag pair of any two symbols or strings, followed by any token,
\* is recorded whenever validatePGNKeyValue accepts the values.
TakenForTag(tokens) ==
    /\ Len(tokens) = 5
    /\ tokens[1].type = "["
    /\ tokens[2].type \in {"Sym", "Str"}
    /\ tokens[3].type \in {"Sym", "Str"}
    /\ tokens[5].type = "*"

TagPairTakenAsItComes ==
    (PgnReturned /\ TakenForTag(call.input) /\ thrown = "none")
       => results = PgnOutput(<<[key |-> call.input[2].value,
                                 value |-> call.input[3].value]>>)

\* '[Event Event] *': a symbol where the string is expected, and the game is
\* returned with the tag.
TagOfTwoSymbolsReturned ==
    /\ PgnReturned
    /\ thrown = "none"
    /\ Len(call.input) = 5
    /\ call.input[3].type = "Sym"
    /\ call.input[4].type = "]"
    /\ results # NoResults
    /\ results[1].tags # <<>>

\* '[Event "x" * *': no closing bracket, and the game is returned with the
\* tag.
TagLeftOpenReturned ==
    /\ PgnReturned
    /\ thrown = "none"
    /\ Len(call.input) = 5
    /\ call.input[3].type = "Str"
    /\ call.input[4].type = "*"
    /\ results # NoResults
    /\ results[1].tags # <<>>

====
